---------------------------- MODULE Spec2Model ----------------------------
(***************************************************************************)
(* A model of the phosphor-ui widget lifecycle (src/src/widgets/widget.ts) *)
(* and of the split layout's sizer engine (src/unnamed/part_000).          *)
(*                                                                         *)
(* Messages are sent synchronously: a send runs the whole handler chain of *)
(* the target before it returns.  A call is therefore run to completion    *)
(* inside one action.  The call works on a state record that carries, next *)
(* to the program state, the stack of what is still to be executed (every  *)
(* frame a statement or a call of the source, the innermost first), the    *)
(* log of what the call did (messages, handler invocations, pointer        *)
(* writes) and the error it threw, if any.  Nothing in the sources catches *)
(* an error, so a throw drops everything that would have followed it.      *)
(***************************************************************************)
EXTENDS Integers, Sequences, FiniteSets, TLC

\* ------------------------------------------------------------------ bounds
NW == 3        \* number of widgets
NL == 2        \* number of layouts

NULL == 0
HOST == -1     \* the DOM host element handed to Widget.attach

Widgets == 1..NW
Layouts == 1..NL

\* WidgetFlag (widget.ts 728-754)
WidgetFlag == {"IsDisposed", "IsAttached", "IsHidden", "IsVisible", "DisallowLayout"}

NoErr == "none"

VARIABLES
  flags,      \* Widget._flags, as the set of the flags that are set
  parent,     \* Widget._parent
  layout,     \* Widget._layout
  node,       \* Widget._node is non-null
  dom,        \* the DOM parent of the widget's node: NULL, HOST or a widget
  lparent,    \* Layout.parent
  lwidgets,   \* the ordered child widgets of each layout
  ldisposed,  \* the layout was disposed
  err         \* the error the last call threw, NoErr if none

\* The split layout (part_000 961-968) and what it reads of its panel and of
\* its child widgets.
VARIABLES
  sizers,     \* SplitLayout._sizers: one box sizer per child
  handles,    \* SplitLayout._handles: hidden class and laid-out position
  fixed,      \* SplitLayout._fixed
  dirty,      \* SplitLayout._dirty
  ckind,      \* per child: its size limits and its stretch property
  chidden,    \* per child: Widget.isHidden
  pvisible,   \* the panel's Widget.isVisible
  calls       \* the number of calls made on the layout and its widgets

\* The split panel (part_000 225-409) and the document it listens on.
VARIABLES
  pwidgets,       \* the child widgets of the panel's layout, in order
  pressData,      \* SplitPanel._pressData: <<>> for null, else <<the record>>
  cursors,        \* the cursor overrides acquired and not yet disposed
  nodeListeners,  \* the event types the panel listens for on its node
  docListeners,   \* the event types the panel listens for on the document
  pdisposed       \* the panel's IsDisposed flag

wvars == <<flags, parent, layout, node, dom, lparent, lwidgets, ldisposed, err>>
svars == <<sizers, handles, fixed, dirty, ckind, chidden, pvisible, calls>>
dvars == <<pwidgets, pressData, cursors, nodeListeners, docListeners, pdisposed>>
vars == <<wvars, svars, dvars>>

\* A new split panel (part_000 143-146, 407): no press, no listener.
IdlePanel ==
  /\ pwidgets = <<>>
  /\ pressData = <<>>
  /\ cursors = {}
  /\ nodeListeners = {}
  /\ docListeners = {}
  /\ pdisposed = FALSE

\* The state a call starts from: the program state, an empty log, no error.
St ==
  [flags |-> flags, parent |-> parent, layout |-> layout, node |-> node,
   dom |-> dom, lparent |-> lparent, lwidgets |-> lwidgets,
   ldisposed |-> ldisposed, log |-> <<>>, err |-> NoErr, stack |-> <<>>]

\* ------------------------------------------------------------- the log
\* k: "send" (sendMessage called, the handler about to process it),
\*    "layout" (notifyLayout reached the layout), "handler" (the widget's own
\*    on* handler), "set-parent" (the write of _parent), "set-layout",
\*    "signal" (Widget.disposed emitted), "throw", "clear" (a flag cleared
\*    at the end of processing a message, c the flag, f the flags after).
\* d: the nesting depth of the sends around it.
\* f: the flags of widget w at that moment; p: its parent at that moment
\* (for "set-parent": the parent being replaced, c the new one); pf: the
\* flags of that parent at that moment; cf: for a message about a child (c
\* the child), the flags of the child at that moment.
Ev(S, k, w, m, c, d) ==
  [k |-> k, w |-> w, m |-> m, c |-> c, d |-> d,
   f |-> IF w \in Widgets THEN S.flags[w] ELSE {},
   p |-> IF w \in Widgets THEN S.parent[w] ELSE NULL,
   pf |-> IF w \in Widgets /\ S.parent[w] # NULL THEN S.flags[S.parent[w]] ELSE {},
   cf |-> IF k = "send" /\ m \in {"child-shown", "child-hidden"} THEN S.flags[c] ELSE {}]

Record(S, k, w, m, c, d) == [S EXCEPT !.log = Append(@, Ev(S, k, w, m, c, d))]

\* A frame of the stack: t what to execute, on widget w, with message m,
\* child or value c, layout l, at send depth d.
Frame(t, w, m, c, l, d) == [t |-> t, w |-> w, m |-> m, c |-> c, l |-> l, d |-> d]

\* Execute the frames fs next, before what is already on the stack.
Push(S, fs) == [S EXCEPT !.stack = fs \o @]

\* throw new Error(e): nothing catches it.
Throw(S, e) == [Record(S, "throw", NULL, e, NULL, 0) EXCEPT !.err = e, !.stack = <<>>]

\* ------------------------------------------------------ flags (widget.ts)
testFlag(S, w, flag) == flag \in S.flags[w]
setFlag(S, w, flag) == [S EXCEPT !.flags[w] = @ \cup {flag}]
clearFlag(S, w, flag) == [S EXCEPT !.flags[w] = @ \ {flag}]

isDisposed(S, w) == testFlag(S, w, "IsDisposed")
isAttached(S, w) == testFlag(S, w, "IsAttached")
isHidden(S, w) == testFlag(S, w, "IsHidden")
isVisible(S, w) == testFlag(S, w, "IsVisible")

\* document.body.contains(widget.node): the node's DOM ancestors reach the
\* host (the host handed to a successful attach is in the body).
RECURSIVE bodyContainsFrom(_, _, _)
bodyContainsFrom(S, x, fuel) ==
  IF x = HOST THEN TRUE
  ELSE IF x = NULL \/ fuel = 0 THEN FALSE
  ELSE bodyContainsFrom(S, S.dom[x], fuel - 1)

bodyContains(S, w) == bodyContainsFrom(S, w, NW + 1)

\* Widget.contains (widget.ts 314-319): walk the parent pointers up from
\* `widget`.
RECURSIVE containsFrom(_, _, _, _)
containsFrom(S, this, widget, fuel) ==
  IF widget = NULL \/ fuel = 0 THEN FALSE
  ELSE IF widget = this THEN TRUE
  ELSE containsFrom(S, this, S.parent[widget], fuel - 1)

\* A containment test that only recognises the widget itself.
containsSelfOnly(S, this, widget) == widget = this

contains(S, this, widget) == containsFrom(S, this, widget, NW + 1)

\* Seq helpers for the ordered child container.
RECURSIVE SeqRemove(_, _)
SeqRemove(s, x) ==
  IF s = <<>> THEN <<>>
  ELSE IF Head(s) = x THEN Tail(s)
  ELSE <<Head(s)>> \o SeqRemove(Tail(s), x)

InSeq(s, x) == \E i \in 1..Len(s) : s[i] = x

\* ------------------------------------------------- messages (synchronous)
\* Messages with an own handler in Widget.processMessage (widget.ts 516-558).
OwnHandler ==
  {"resize", "update-request", "after-show", "before-hide", "after-attach",
   "before-detach", "close-request", "child-added", "child-removed"}

\* A processing of after-show that leaves the Visible flag as it was.
processMessageShowKeepsFlag(S, w, m, c, d) ==
  LET nl == Frame("notifyLayout", w, m, c, NULL, d)
      oh == Frame("handler", w, m, c, NULL, d)
  IN CASE m = "after-show" -> Push(S, <<nl, oh>>)
       [] m = "before-hide" ->
            Push(S, <<nl, oh, Frame("clearVisible", w, m, c, NULL, d)>>)
       [] m = "after-attach" ->
            LET visible == ~isHidden(S, w) /\
                           (S.parent[w] = NULL \/ isVisible(S, S.parent[w]))
                s1 == IF visible THEN setFlag(S, w, "IsVisible") ELSE S
            IN  Push(setFlag(s1, w, "IsAttached"), <<nl, oh>>)
       [] m = "before-detach" ->
            Push(S, <<nl, oh, Frame("clearVisible", w, m, c, NULL, d),
                      Frame("clearAttached", w, m, c, NULL, d)>>)
       [] m \in OwnHandler \ {"after-show", "before-hide", "after-attach", "before-detach"} ->
            Push(S, <<nl, oh>>)
       [] OTHER -> Push(S, <<nl>>)

\* A processing of before-detach that clears the flags before it notifies.
processMessageDetachClearsFirst(S, w, m, c, d) ==
  LET nl == Frame("notifyLayout", w, m, c, NULL, d)
      oh == Frame("handler", w, m, c, NULL, d)
  IN CASE m = "after-show" ->
            Push(setFlag(S, w, "IsVisible"), <<nl, oh>>)
       [] m = "before-hide" ->
            Push(S, <<nl, oh, Frame("clearVisible", w, m, c, NULL, d)>>)
       [] m = "after-attach" ->
            LET visible == ~isHidden(S, w) /\
                           (S.parent[w] = NULL \/ isVisible(S, S.parent[w]))
                s1 == IF visible THEN setFlag(S, w, "IsVisible") ELSE S
            IN  Push(setFlag(s1, w, "IsAttached"), <<nl, oh>>)
       [] m = "before-detach" ->
            Push(S, <<Frame("clearVisible", w, m, c, NULL, d),
                      Frame("clearAttached", w, m, c, NULL, d), nl, oh>>)
       [] m \in OwnHandler \ {"after-show", "before-hide", "after-attach", "before-detach"} ->
            Push(S, <<nl, oh>>)
       [] OTHER -> Push(S, <<nl>>)

\* A processing of after-attach that makes every attached widget visible.
processMessageAttachShows(S, w, m, c, d) ==
  LET nl == Frame("notifyLayout", w, m, c, NULL, d)
      oh == Frame("handler", w, m, c, NULL, d)
  IN CASE m = "after-show" ->
            Push(setFlag(S, w, "IsVisible"), <<nl, oh>>)
       [] m = "before-hide" ->
            Push(S, <<nl, oh, Frame("clearVisible", w, m, c, NULL, d)>>)
       [] m = "after-attach" ->
            Push(setFlag(setFlag(S, w, "IsVisible"), w, "IsAttached"), <<nl, oh>>)
       [] m = "before-detach" ->
            Push(S, <<nl, oh, Frame("clearVisible", w, m, c, NULL, d),
                      Frame("clearAttached", w, m, c, NULL, d)>>)
       [] m \in OwnHandler \ {"after-show", "before-hide", "after-attach", "before-detach"} ->
            Push(S, <<nl, oh>>)
       [] OTHER -> Push(S, <<nl>>)

\* A processing that runs the widget's own handler before it tells the
\* layout, for the kinds that change no flag.
processMessageHandlerFirst(S, w, m, c, d) ==
  LET nl == Frame("notifyLayout", w, m, c, NULL, d)
      oh == Frame("handler", w, m, c, NULL, d)
  IN CASE m = "after-show" ->
            Push(setFlag(S, w, "IsVisible"), <<nl, oh>>)
       [] m = "before-hide" ->
            Push(S, <<nl, oh, Frame("clearVisible", w, m, c, NULL, d)>>)
       [] m = "after-attach" ->
            LET visible == ~isHidden(S, w) /\
                           (S.parent[w] = NULL \/ isVisible(S, S.parent[w]))
                s1 == IF visible THEN setFlag(S, w, "IsVisible") ELSE S
            IN  Push(setFlag(s1, w, "IsAttached"), <<nl, oh>>)
       [] m = "before-detach" ->
            Push(S, <<nl, oh, Frame("clearVisible", w, m, c, NULL, d),
                      Frame("clearAttached", w, m, c, NULL, d)>>)
       [] m \in OwnHandler \ {"after-show", "before-hide", "after-attach", "before-detach"} ->
            Push(S, <<oh, nl>>)
       [] OTHER -> Push(S, <<nl>>)

\* Widget.processMessage (widget.ts 514-563), entered at send depth d: what
\* it does at once, and what it then runs in order.
processMessage(S, w, m, c, d) ==
  LET nl == Frame("notifyLayout", w, m, c, NULL, d)
      oh == Frame("handler", w, m, c, NULL, d)
  IN CASE m = "after-show" ->
            Push(setFlag(S, w, "IsVisible"), <<nl, oh>>)
       [] m = "before-hide" ->
            Push(S, <<nl, oh, Frame("clearVisible", w, m, c, NULL, d)>>)
       [] m = "after-attach" ->
            LET visible == ~isHidden(S, w) /\
                           (S.parent[w] = NULL \/ isVisible(S, S.parent[w]))
                s1 == IF visible THEN setFlag(S, w, "IsVisible") ELSE S
            IN  Push(setFlag(s1, w, "IsAttached"), <<nl, oh>>)
       [] m = "before-detach" ->
            Push(S, <<nl, oh, Frame("clearVisible", w, m, c, NULL, d),
                      Frame("clearAttached", w, m, c, NULL, d)>>)
       [] m \in OwnHandler \ {"after-show", "before-hide", "after-attach", "before-detach"} ->
            Push(S, <<nl, oh>>)
       [] OTHER -> Push(S, <<nl>>)

\* sendMessage(handler, msg): the handler processes the message before the
\* call returns.  c is the child of a ChildMessage, NULL otherwise.
sendMessage(S, k) ==
  processMessage(Record(S, "send", k.w, k.m, k.c, k.d), k.w, k.m, k.c, k.d + 1)

\* Layout.processParentMessage: lifecycle messages flow from the container
\* to its children (show and hide only to the children not explicitly
\* hidden); child-removed takes the child out of the layout.
processParentMessage(S, l, m, c, d) ==
  LET ws == S.lwidgets[l] IN
  CASE m \in {"after-show", "before-hide"} ->
         Push(S, [i \in 1..Len(ws) |-> Frame("sendIfShown", ws[i], m, NULL, NULL, d)])
    [] m \in {"after-attach", "before-detach"} ->
         Push(S, [i \in 1..Len(ws) |-> Frame("send", ws[i], m, NULL, NULL, d)])
    [] m = "child-removed" -> Push(S, <<Frame("removeWidget", c, "", NULL, l, d)>>)
    [] OTHER -> S

sendIfShown(S, k) ==
  IF isHidden(S, k.w) THEN S ELSE Push(S, <<Frame("send", k.w, k.m, k.c, NULL, k.d)>>)

\* Widget.notifyLayout (widget.ts 575-577)
notifyLayout(S, k) ==
  IF S.layout[k.w] # NULL
    THEN processParentMessage(Record(S, "layout", k.w, k.m, k.c, k.d),
                              S.layout[k.w], k.m, k.c, k.d)
    ELSE S

\* Widget.onCloseRequest (widget.ts 585-591)
onCloseRequest(S, k) ==
  IF S.parent[k.w] # NULL THEN Push(S, <<Frame("setParent", k.w, "", NULL, NULL, k.d)>>)
  ELSE IF isAttached(S, k.w) THEN Push(S, <<Frame("detach", k.w, "", NULL, NULL, k.d)>>)
  ELSE S

\* The widget's own handler for a message kind.  The handlers of the base
\* class are no-ops (widget.ts 599-655) but for onCloseRequest.
onHandler(S, k) ==
  LET s1 == Record(S, "handler", k.w, k.m, k.c, k.d)
  IN  IF k.m = "close-request" THEN onCloseRequest(s1, k) ELSE s1

\* A parent setter that writes the pointer before telling the old parent.
setParentAssignFirst(S, k) ==
  LET w == k.w
      value == k.c
      old == S.parent[w]
  IN  IF old = value THEN S
      ELSE IF value # NULL /\ contains(S, w, value) THEN Throw(S, "Invalid parent widget.")
      ELSE Push(S,
             <<Frame("assignParent", w, "", value, NULL, k.d)>>
             \o (IF old # NULL /\ ~isDisposed(S, old)
                   THEN <<Frame("send", old, "child-removed", w, NULL, k.d)>> ELSE <<>>)
             \o <<Frame("sendChildAdded", w, "", NULL, NULL, k.d),
                  Frame("send", w, "parent-changed", NULL, NULL, k.d)>>)

\* The parent setter (widget.ts 237-253); k.c is the value assigned.
setParent(S, k) ==
  LET w == k.w
      value == k.c
      old == S.parent[w]
  IN  IF old = value THEN S
      ELSE IF value # NULL /\ contains(S, w, value) THEN Throw(S, "Invalid parent widget.")
      ELSE Push(S,
             (IF old # NULL /\ ~isDisposed(S, old)
                THEN <<Frame("send", old, "child-removed", w, NULL, k.d)>> ELSE <<>>)
             \o <<Frame("assignParent", w, "", value, NULL, k.d),
                  Frame("sendChildAdded", w, "", NULL, NULL, k.d),
                  Frame("send", w, "parent-changed", NULL, NULL, k.d)>>)

\* this._parent = value (widget.ts 248)
assignParent(S, k) ==
  [Record(S, "set-parent", k.w, "", k.c, k.d) EXCEPT !.parent[k.w] = k.c]

\* widget.ts 249-251
sendChildAdded(S, k) ==
  LET new == S.parent[k.w]
  IN  IF new # NULL /\ ~isDisposed(S, new)
        THEN Push(S, <<Frame("send", new, "child-added", k.w, NULL, k.d)>>)
        ELSE S

\* SplitLayout.attachWidget (part_000 640-660): add the node to the parent's
\* node and send after-attach if the parent is attached.
attachWidget(S, k) ==
  LET p == S.lparent[k.l]
      s1 == [S EXCEPT !.dom[k.w] = p]
  IN  IF isAttached(s1, p)
        THEN Push(s1, <<Frame("send", k.w, "after-attach", NULL, NULL, k.d)>>)
        ELSE s1

\* SplitLayout.detachWidget (part_000 693-713): send before-detach if the
\* parent is attached, then remove the node from the parent's node.
detachWidget(S, k) ==
  Push(S,
    (IF isAttached(S, S.lparent[k.l])
       THEN <<Frame("send", k.w, "before-detach", NULL, NULL, k.d)>> ELSE <<>>)
    \o <<Frame("removeChild", k.w, "", NULL, k.l, k.d)>>)

\* this.parent.node.removeChild(widget.node) (part_000 705)
removeChild(S, k) ==
  IF S.dom[k.w] # S.lparent[k.l] THEN Throw(S, "NotFoundError")
  ELSE [S EXCEPT !.dom[k.w] = NULL]

\* The layout's removal of a child: out of the ordered container, then
\* detached; a widget the layout does not hold is left alone.
removeWidget(S, k) ==
  IF ~InSeq(S.lwidgets[k.l], k.w) THEN S
  ELSE Push([S EXCEPT !.lwidgets[k.l] = SeqRemove(@, k.w)],
            <<Frame("detachWidget", k.w, "", NULL, k.l, k.d)>>)

\* The layout's insertion of a child at the end: the child is reparented to
\* the layout's parent, then put into the ordered container and attached.
addWidget(S, k) ==
  Push(S, <<Frame("setParent", k.w, "", S.lparent[k.l], NULL, k.d),
            Frame("insertWidget", k.w, "", NULL, k.l, k.d)>>)

insertWidget(S, k) ==
  IF InSeq(S.lwidgets[k.l], k.w)
    THEN [S EXCEPT !.lwidgets[k.l] = Append(SeqRemove(@, k.w), k.w)]
    ELSE Push([S EXCEPT !.lwidgets[k.l] = Append(@, k.w)],
              <<Frame("attachWidget", k.w, "", NULL, k.l, k.d)>>)

\* An attach that forgets to refuse child widgets.
attachNoParentCheck(S, k) ==
  IF isAttached(S, k.w) \/ bodyContains(S, k.w) THEN Throw(S, "Widget already attached.")
  ELSE IF k.c # 1 THEN Throw(S, "Host not attached.")
  ELSE Push([S EXCEPT !.dom[k.w] = HOST],
            <<Frame("send", k.w, "after-attach", NULL, NULL, k.d)>>)

\* Widget.attach (widget.ts 687-700); k.c = 1: the host is in the document.
attach(S, k) ==
  IF S.parent[k.w] # NULL THEN Throw(S, "Cannot attach child widget.")
  ELSE IF isAttached(S, k.w) \/ bodyContains(S, k.w) THEN Throw(S, "Widget already attached.")
  ELSE IF k.c # 1 THEN Throw(S, "Host not attached.")
  ELSE Push([S EXCEPT !.dom[k.w] = HOST],
            <<Frame("send", k.w, "after-attach", NULL, NULL, k.d)>>)

\* Widget.detach (widget.ts 711-721)
detach(S, k) ==
  IF S.parent[k.w] # NULL THEN Throw(S, "Cannot detach child widget.")
  ELSE IF ~isAttached(S, k.w) \/ ~bodyContains(S, k.w) THEN Throw(S, "Widget not attached.")
  ELSE Push(S, <<Frame("send", k.w, "before-detach", NULL, NULL, k.d),
                 Frame("removeNode", k.w, "", NULL, NULL, k.d)>>)

\* widget.node.parentNode.removeChild(widget.node) (widget.ts 720)
removeNode(S, k) == [S EXCEPT !.dom[k.w] = NULL]

\* Widget.close (widget.ts 412-414)
close(S, k) == Push(S, <<Frame("send", k.w, "close-request", NULL, NULL, k.d)>>)

\* widget.ts 433-435 and 455-457: tell the parent, if there is one.
\* A notification of the parent that is skipped for an unattached child.
notifyParentIfAttached(S, k) ==
  IF S.parent[k.w] # NULL /\ isAttached(S, k.w)
    THEN Push(S, <<Frame("send", S.parent[k.w], k.m, k.w, NULL, k.d)>>)
    ELSE S

\* if (this.parent) sendMessage(this.parent, ...) (widget.ts 433-435, 455-457)
notifyParent(S, k) ==
  IF S.parent[k.w] # NULL
    THEN Push(S, <<Frame("send", S.parent[k.w], k.m, k.w, NULL, k.d)>>)
    ELSE S

\* A show that sends after-show whether or not the widget is attached.
showUnattached(S, k) ==
  LET w == k.w IN
  IF ~testFlag(S, w, "IsHidden") THEN S
  ELSE LET s1 == clearFlag(S, w, "IsHidden")
       IN  Push(s1,
             (IF s1.parent[w] = NULL \/ isVisible(s1, s1.parent[w])
                THEN <<Frame("send", w, "after-show", NULL, NULL, k.d)>> ELSE <<>>)
             \o <<Frame("notifyParent", w, "child-shown", NULL, NULL, k.d)>>)

\* Widget.show (widget.ts 424-436)
show(S, k) ==
  LET w == k.w IN
  IF ~testFlag(S, w, "IsHidden") THEN S
  ELSE LET s1 == clearFlag(S, w, "IsHidden")
       IN  Push(s1,
             (IF isAttached(s1, w) /\ (s1.parent[w] = NULL \/ isVisible(s1, s1.parent[w]))
                THEN <<Frame("send", w, "after-show", NULL, NULL, k.d)>> ELSE <<>>)
             \o <<Frame("notifyParent", w, "child-shown", NULL, NULL, k.d)>>)

\* A hide without the early return on an already hidden widget.
hideAlways(S, k) ==
  LET w == k.w IN
  Push(S,
    (IF isAttached(S, w) /\ (S.parent[w] = NULL \/ isVisible(S, S.parent[w]))
       THEN <<Frame("send", w, "before-hide", NULL, NULL, k.d)>> ELSE <<>>)
    \o <<Frame("setHidden", w, "", NULL, NULL, k.d),
         Frame("notifyParent", w, "child-hidden", NULL, NULL, k.d)>>)

\* Widget.hide (widget.ts 446-458)
hide(S, k) ==
  LET w == k.w IN
  IF testFlag(S, w, "IsHidden") THEN S
  ELSE Push(S,
         (IF isAttached(S, w) /\ (S.parent[w] = NULL \/ isVisible(S, S.parent[w]))
            THEN <<Frame("send", w, "before-hide", NULL, NULL, k.d)>> ELSE <<>>)
         \o <<Frame("setHidden", w, "", NULL, NULL, k.d),
              Frame("notifyParent", w, "child-hidden", NULL, NULL, k.d)>>)

\* A layout setter that lets an installed layout be replaced.
setLayoutReplace(S, k) ==
  LET w == k.w
      value == k.l
  IN  IF S.layout[w] = value THEN S
      ELSE IF testFlag(S, w, "DisallowLayout") THEN Throw(S, "Cannot set widget layout.")
      ELSE IF value = NULL THEN [S EXCEPT !.layout[w] = NULL]
      ELSE IF S.lparent[value] # NULL THEN Throw(S, "Cannot change layout parent.")
      ELSE LET s1 == [S EXCEPT !.layout[w] = value, !.lparent[value] = w]
           IN  Push(Record(s1, "set-layout", w, "", value, k.d),
                    <<Frame("send", w, "layout-changed", NULL, NULL, k.d)>>)

\* The layout setter (widget.ts 274-291); k.l is the value assigned.  The
\* layout's parent setter records the owning widget.
setLayout(S, k) ==
  LET w == k.w
      value == k.l
  IN  IF S.layout[w] = value THEN S
      ELSE IF testFlag(S, w, "DisallowLayout") THEN Throw(S, "Cannot set widget layout.")
      ELSE IF S.layout[w] # NULL THEN Throw(S, "Cannot change widget layout.")
      ELSE IF S.lparent[value] # NULL THEN Throw(S, "Cannot change layout parent.")
      ELSE LET s1 == [S EXCEPT !.layout[w] = value, !.lparent[value] = w]
           IN  Push(Record(s1, "set-layout", w, "", value, k.d),
                    <<Frame("send", w, "layout-changed", NULL, NULL, k.d)>>)

\* Widget.dispose (widget.ts 102-132)
dispose(S, k) ==
  LET w == k.w IN
  IF isDisposed(S, w) THEN S
  ELSE LET s1 == Record(setFlag(S, w, "IsDisposed"), "signal", w, "disposed", NULL, k.d)
       IN  Push(s1,
             (IF s1.parent[w] # NULL THEN <<Frame("setParent", w, "", NULL, NULL, k.d)>>
              ELSE IF isAttached(s1, w) THEN <<Frame("detach", w, "", NULL, NULL, k.d)>>
              ELSE <<>>)
             \o <<Frame("disposeOwnLayout", w, "", NULL, NULL, k.d),
                  Frame("releaseNode", w, "", NULL, NULL, k.d)>>)

\* widget.ts 120-123
disposeOwnLayout(S, k) ==
  IF S.layout[k.w] # NULL
    THEN Push(S, <<Frame("disposeLayout", NULL, "", NULL, S.layout[k.w], k.d),
                   Frame("clearLayout", k.w, "", NULL, NULL, k.d)>>)
    ELSE S

clearLayout(S, k) == [S EXCEPT !.layout[k.w] = NULL]

\* widget.ts 131
releaseNode(S, k) == [S EXCEPT !.node[k.w] = FALSE]

\* Layout.dispose: the disposal cascades to the children, last first; the
\* layout then lets go of its parent.
disposeLayout(S, k) ==
  LET ws == S.lwidgets[k.l]
      n == Len(ws)
  IN  IF n > 0
        THEN Push([S EXCEPT !.lwidgets[k.l] = SubSeq(ws, 1, n - 1)],
                  <<Frame("dispose", ws[n], "", NULL, NULL, k.d), k>>)
        ELSE [S EXCEPT !.lparent[k.l] = NULL, !.ldisposed[k.l] = TRUE]

\* Execute the innermost frame.
Step(S) ==
  LET k == Head(S.stack)
      s == [S EXCEPT !.stack = Tail(@)]
  IN CASE k.t = "send" -> sendMessage(s, k)
       [] k.t = "sendIfShown" -> sendIfShown(s, k)
       [] k.t = "notifyLayout" -> notifyLayout(s, k)
       [] k.t = "handler" -> onHandler(s, k)
       [] k.t = "clearVisible" ->
            Record(clearFlag(s, k.w, "IsVisible"), "clear", k.w, k.m, "IsVisible", k.d)
       [] k.t = "clearAttached" ->
            Record(clearFlag(s, k.w, "IsAttached"), "clear", k.w, k.m, "IsAttached", k.d)
       [] k.t = "setHidden" -> setFlag(s, k.w, "IsHidden")
       [] k.t = "setParent" -> setParent(s, k)
       [] k.t = "assignParent" -> assignParent(s, k)
       [] k.t = "sendChildAdded" -> sendChildAdded(s, k)
       [] k.t = "attachWidget" -> attachWidget(s, k)
       [] k.t = "detachWidget" -> detachWidget(s, k)
       [] k.t = "removeChild" -> removeChild(s, k)
       [] k.t = "removeWidget" -> removeWidget(s, k)
       [] k.t = "addWidget" -> addWidget(s, k)
       [] k.t = "insertWidget" -> insertWidget(s, k)
       [] k.t = "attach" -> attach(s, k)
       [] k.t = "detach" -> detach(s, k)
       [] k.t = "removeNode" -> removeNode(s, k)
       [] k.t = "close" -> close(s, k)
       [] k.t = "notifyParent" -> notifyParent(s, k)
       [] k.t = "show" -> show(s, k)
       [] k.t = "hide" -> hide(s, k)
       [] k.t = "setLayout" -> setLayout(s, k)
       [] k.t = "dispose" -> dispose(s, k)
       [] k.t = "disposeOwnLayout" -> disposeOwnLayout(s, k)
       [] k.t = "clearLayout" -> clearLayout(s, k)
       [] k.t = "releaseNode" -> releaseNode(s, k)
       [] k.t = "disposeLayout" -> disposeLayout(s, k)

\* Run until the call has returned (or thrown).
RECURSIVE Run(_)
Run(S) == IF S.stack = <<>> THEN S ELSE Run(Step(S))

\* The state after the call `t` made on state S by user code.
Call(S, t, w, c, l) == Run(Push(S, <<Frame(t, w, "", c, l, 0)>>))

\* ------------------------------------------------------------- the machine
Init ==
  /\ flags = [w \in Widgets |-> {}]
  /\ parent = [w \in Widgets |-> NULL]
  /\ layout = [w \in Widgets |-> NULL]
  /\ node = [w \in Widgets |-> TRUE]
  /\ dom = [w \in Widgets |-> NULL]
  /\ lparent = [l \in Layouts |-> NULL]
  /\ lwidgets = [l \in Layouts |-> <<>>]
  /\ ldisposed = [l \in Layouts |-> FALSE]
  /\ err = NoErr
  \* a split layout without children (part_000 961-968)
  /\ sizers = <<>>
  /\ handles = <<>>
  /\ fixed = 0
  /\ dirty = FALSE
  /\ ckind = <<>>
  /\ chidden = <<>>
  /\ pvisible = FALSE
  /\ calls = 0
  /\ IdlePanel

\* The program state after a call is the state the call computed.
Commit(s) ==
  /\ flags' = s.flags
  /\ parent' = s.parent
  /\ layout' = s.layout
  /\ node' = s.node
  /\ dom' = s.dom
  /\ lparent' = s.lparent
  /\ lwidgets' = s.lwidgets
  /\ ldisposed' = s.ldisposed
  /\ err' = s.err
  /\ UNCHANGED <<svars, dvars>>

\* A widget is used only while it is not disposed ("It is unsafe to use the
\* widget after it has been disposed"); dispose itself may be called again.
Live(w) == "IsDisposed" \notin flags[w]

Attach(w, hostOk) ==
  /\ Live(w)
  /\ Commit(Call(St, "attach", w, hostOk, NULL))

Detach(w) ==
  /\ Live(w)
  /\ Commit(Call(St, "detach", w, NULL, NULL))

Show(w) ==
  /\ Live(w)
  /\ Commit(Call(St, "show", w, NULL, NULL))

Hide(w) ==
  /\ Live(w)
  /\ Commit(Call(St, "hide", w, NULL, NULL))

Close(w) ==
  /\ Live(w)
  /\ Commit(Call(St, "close", w, NULL, NULL))

\* User code clears the parent; a widget is given a parent by inserting it
\* into the parent's layout (AddWidget), which calls the setter itself.
SetParent(w, value) ==
  /\ Live(w)
  /\ Commit(Call(St, "setParent", w, value, NULL))

\* Layouts are interchangeable: the layout a widget installs when it has none
\* is the one numbered like the widget.  Every other assignment is tried only
\* where the setter rejects it or ignores it.
SetLayout(w, value) ==
  /\ Live(w)
  /\ IF value = NULL THEN TRUE
     ELSE /\ ~ldisposed[value]
          /\ (value = w \/ layout[w] # NULL \/ lparent[value] # NULL)
  /\ Commit(Call(St, "setLayout", w, NULL, value))

\* Children are inserted into a layout that is installed on a live widget.
AddWidget(l, w) ==
  /\ Live(w)
  /\ lparent[l] # NULL
  /\ Live(lparent[l])
  /\ Commit(Call(St, "addWidget", w, NULL, l))

Dispose(w) ==
  /\ w \in Widgets
  /\ Commit(Call(St, "dispose", w, NULL, NULL))

Next ==
  \/ \E w \in Widgets, hostOk \in {0, 1} : Attach(w, hostOk)
  \/ \E w \in Widgets : Detach(w)
  \/ \E w \in Widgets : Show(w)
  \/ \E w \in Widgets : Hide(w)
  \/ \E w \in Widgets : Close(w)
  \/ \E w \in Widgets, value \in {NULL} : SetParent(w, value)
  \/ \E w \in Widgets, value \in Layouts \cup {NULL} : SetLayout(w, value)
  \/ \E l \in Layouts, w \in Widgets : AddWidget(l, w)
  \/ \E w \in Widgets : Dispose(w)

Spec == Init /\ [][Next]_vars

\* The widgets alone, without layouts: user code assigns parents directly.
AssignParent(w, value) ==
  /\ Live(w)
  /\ Commit(Call(St, "setParent", w, value, NULL))

NextDirect ==
  \/ \E w \in Widgets, hostOk \in {0, 1} : Attach(w, hostOk)
  \/ \E w \in Widgets : Detach(w)
  \/ \E w \in Widgets : Show(w)
  \/ \E w \in Widgets : Hide(w)
  \/ \E w \in Widgets, value \in Widgets \cup {NULL} : AssignParent(w, value)
  \/ \E w \in Widgets : Dispose(w)

SpecDirect == Init /\ [][NextDirect]_vars

\* ------------------------------------------------------------ the claims
\* Helpers to read the log of a call.
IsTop(e) == e.d = 0
Top(lg) == SelectSeq(lg, IsTop)
IsSend(e) == e.k = "send"
Sends(lg) == SelectSeq(lg, IsSend)
Shape(e) == <<e.k, e.w, e.m, e.c>>
Shapes(lg) == [i \in 1..Len(lg) |-> Shape(lg[i])]

RECURSIVE HiddenAncestor(_, _)
HiddenAncestor(w, fuel) ==
  IF fuel = 0 \/ parent[w] = NULL THEN FALSE
  ELSE "IsHidden" \in flags[parent[w]] \/ HiddenAncestor(parent[w], fuel - 1)

\* C1: every visible widget is attached, not hidden, and has no hidden
\* ancestor.  (Stated as the claim states it; the code does not keep it.)
C1_VisibleImpliesShown ==
  \A w \in Widgets :
    "IsVisible" \in flags[w] =>
      /\ "IsAttached" \in flags[w]
      /\ "IsHidden" \notin flags[w]
      /\ ~HiddenAncestor(w, NW)


\* The program state of a call's result is the current program state.
Same(s) ==
  /\ s.flags = flags /\ s.parent = parent /\ s.layout = layout
  /\ s.node = node /\ s.dom = dom /\ s.lparent = lparent
  /\ s.lwidgets = lwidgets /\ s.ldisposed = ldisposed

Quiet(s) == s.log = <<>> /\ s.err = NoErr

\* C5: dispose is idempotent.  A widget that was disposed (the first call)
\* has the Disposed flag, no parent, no layout and no node, and its layout
\* was disposed with it; dispose on a disposed widget changes nothing, sends
\* and emits nothing and raises nothing.
C5_DisposeIdempotent ==
  /\ \A w \in Widgets :
       "IsDisposed" \in flags[w] =>
         /\ parent[w] = NULL
         /\ layout[w] = NULL
         /\ ~node[w]
         /\ \A l \in Layouts : lparent[l] # w
  /\ \A w \in Widgets :
       "IsDisposed" \in flags[w] =>
         LET s == Call(St, "dispose", w, NULL, NULL) IN Same(s) /\ Quiet(s)

\* What holds of the first call whenever it does not throw, and of every
\* later call.
C5_FirstCallUnlessThrown ==
  \A w \in Widgets :
    LET s == Call(St, "dispose", w, NULL, NULL) IN
      IF "IsDisposed" \in flags[w] THEN Same(s) /\ Quiet(s)
      ELSE s.err = NoErr =>
             /\ "IsDisposed" \in s.flags[w]
             /\ s.parent[w] = NULL
             /\ s.layout[w] = NULL
             /\ ~s.node[w]
             /\ (layout[w] # NULL => s.ldisposed[layout[w]])

\* The first call throws only on a root widget whose IsAttached flag is set
\* while its node is not in the document.
C5_ThrowsOnlyWhenStale ==
  \A w \in Widgets :
    LET s == Call(St, "dispose", w, NULL, NULL) IN
      s.err # NoErr =>
        /\ s.err = "Widget not attached."
        /\ parent[w] = NULL /\ "IsAttached" \in flags[w] /\ ~bodyContains(St, w)


\* C6: disposing a widget whose layout holds two children disposes the
\* layout, clears the widget's layout reference and leaves both children
\* without a parent; disposing it again changes nothing and raises nothing.
C6_DisposalCascade ==
  \A w \in Widgets :
    (Live(w) /\ layout[w] # NULL) =>
      LET l == layout[w]
          ws == lwidgets[l]
          s == [Call(St, "dispose", w, NULL, NULL) EXCEPT !.log = <<>>]
          s2 == Call(s, "dispose", w, NULL, NULL)
      IN  Len(ws) = 2 =>
            /\ s.err = NoErr
            /\ s.ldisposed[l]
            /\ s.layout[w] = NULL
            /\ \A i \in 1..2 : s.parent[ws[i]] = NULL
            /\ s2 = s

\* What holds of the cascade whenever the dispose does not throw.
C6_CascadeUnlessThrown ==
  \A w \in Widgets :
    (Live(w) /\ layout[w] # NULL) =>
      LET l == layout[w]
          ws == lwidgets[l]
          s == [Call(St, "dispose", w, NULL, NULL) EXCEPT !.log = <<>>]
          s2 == Call(s, "dispose", w, NULL, NULL)
      IN  (Len(ws) = 2 /\ s.err = NoErr) =>
            /\ s.ldisposed[l]
            /\ s.layout[w] = NULL
            /\ \A i \in 1..2 : s.parent[ws[i]] = NULL /\ "IsDisposed" \in s.flags[ws[i]]
            /\ s2 = s

\* The top-level steps the parent setter is to take for `value` on widget w.
ExpectedSetParent(w, value) ==
  LET old == parent[w] IN
    (IF old # NULL /\ "IsDisposed" \notin flags[old]
       THEN << <<"send", old, "child-removed", w>> >> ELSE <<>>)
    \o << <<"set-parent", w, "", value>> >>
    \o (IF value # NULL /\ "IsDisposed" \notin flags[value]
          THEN << <<"send", value, "child-added", w>> >> ELSE <<>>)
    \o << <<"send", w, "parent-changed", NULL>> >>

\* C7: an effective parent change sends child-removed to the old parent (if
\* there is one and it is not disposed), then writes the parent pointer, then
\* sends child-added to the new parent (if there is one and it is not
\* disposed), then sends parent-changed to the widget; assigning the current
\* parent sends nothing.
C7_ParentChangeOrder ==
  \A w \in Widgets : \A value \in Widgets \cup {NULL} :
    (Live(w) /\ ~(value # NULL /\ contains(St, w, value))) =>
      LET s == Call(St, "setParent", w, value, NULL) IN
        IF parent[w] = value THEN Same(s) /\ Quiet(s)
        ELSE /\ s.err = NoErr
             /\ Shapes(Top(s.log)) = ExpectedSetParent(w, value)
             /\ s.parent[w] = value
             \* child-removed is processed while the old parent is still set
             /\ \A i \in 1..Len(s.log) :
                  (s.log[i].m = "child-removed" /\ s.log[i].c = w) =>
                    \A j \in 1..Len(s.log) : s.log[j].k = "set-parent" => i < j

\* A reachable state where a widget moves from one live parent to another:
\* all four steps happen.
C7_Witness ==
  \E w \in Widgets : \E l \in Layouts :
    /\ Live(w) /\ parent[w] # NULL /\ Live(parent[w])
    /\ lparent[l] # NULL /\ Live(lparent[l]) /\ lparent[l] # parent[w]
    /\ ~contains(St, w, lparent[l])
    /\ LET s == Call(St, "addWidget", w, NULL, l)
       IN  /\ s.err = NoErr
           /\ s.parent[w] = lparent[l]
           /\ Len(Top(s.log)) >= 4

RECURSIVE IsAncestor(_, _, _)
IsAncestor(a, w, fuel) ==
  IF fuel = 0 \/ parent[w] = NULL THEN FALSE
  ELSE parent[w] = a \/ IsAncestor(a, parent[w], fuel - 1)

\* C8: assigning as parent the widget itself or one of its descendants
\* throws before any message is sent and changes no parent pointer; the
\* parent relation of every reachable state is acyclic.
C8_NoCycle ==
  /\ \A w \in Widgets : ~IsAncestor(w, w, NW)
  /\ \A w \in Widgets : \A value \in Widgets :
       (Live(w) /\ (value = w \/ IsAncestor(w, value, NW))) =>
         LET s == Call(St, "setParent", w, value, NULL) IN
           /\ s.err = "Invalid parent widget."
           /\ Same(s)
           /\ Sends(s.log) = <<>>

\* A reachable state where a widget is handed one of its proper descendants
\* as parent (by inserting it into the descendant's layout), and the insertion
\* throws.
C8_Witness ==
  \E w \in Widgets : \E l \in Layouts :
    /\ Live(w) /\ lparent[l] # NULL /\ Live(lparent[l]) /\ lparent[l] # w
    /\ IsAncestor(w, lparent[l], NW)
    /\ Call(St, "addWidget", w, NULL, l).err = "Invalid parent widget."

\* C9: once a layout is assigned, assigning any other value throws and
\* leaves the layout unchanged; assigning a layout that has a parent throws
\* and leaves the widget's layout and the layout's parent unchanged; a failed
\* assignment sends no layout-changed.
C9_LayoutSetOnce ==
  \A w \in Widgets : \A value \in Layouts \cup {NULL} :
    LET s == Call(St, "setLayout", w, NULL, value)
        rejected == \/ (layout[w] # NULL /\ value # layout[w])
                    \/ (value # NULL /\ lparent[value] # NULL /\ value # layout[w])
    IN  (Live(w) /\ rejected) =>
          /\ s.err \in {"Cannot change widget layout.", "Cannot change layout parent."}
          /\ (layout[w] # NULL => s.err = "Cannot change widget layout.")
          /\ Same(s)
          /\ Sends(s.log) = <<>>

\* Reachable: a widget with a layout is handed another, free layout, and a
\* widget without a layout is handed one that is installed elsewhere.
C9_Witness ==
  /\ err = "Cannot change layout parent."
  /\ \E w \in Widgets : \E value \in Layouts :
       /\ Live(w) /\ layout[w] # NULL /\ value # layout[w] /\ lparent[value] = NULL
       /\ Call(St, "setLayout", w, NULL, value).err = "Cannot change widget layout."
  /\ \E w \in Widgets :
       /\ Live(w) /\ layout[w] # NULL
       /\ Call(St, "setLayout", w, NULL, NULL).err = "Cannot change widget layout."

\* C10: Widget.attach throws when the widget has a parent or is attached,
\* Widget.detach throws when it has a parent or is not attached; in these
\* cases nothing is sent and no flag changes.
C10_AttachDetachErrors ==
  \A w \in Widgets :
    Live(w) =>
      /\ \A hostOk \in {0, 1} :
           (parent[w] # NULL \/ "IsAttached" \in flags[w]) =>
             LET s == Call(St, "attach", w, hostOk, NULL) IN
               /\ s.err = (IF parent[w] # NULL THEN "Cannot attach child widget."
                           ELSE "Widget already attached.")
               /\ Same(s) /\ Sends(s.log) = <<>>
      /\ (parent[w] # NULL \/ "IsAttached" \notin flags[w]) =>
           LET s == Call(St, "detach", w, NULL, NULL) IN
             /\ s.err = (IF parent[w] # NULL THEN "Cannot detach child widget."
                         ELSE "Widget not attached.")
             /\ Same(s) /\ Sends(s.log) = <<>>

\* Reachable: attach was called on a child widget and threw, while another
\* widget is an attached root (on which attach throws as well) and a third is
\* an unattached root (on which detach throws).
C10_Witness ==
  /\ err = "Cannot attach child widget."
  /\ \E w \in Widgets : Live(w) /\ parent[w] # NULL /\ "IsAttached" \in flags[w]
  /\ \E w \in Widgets : Live(w) /\ parent[w] = NULL /\ "IsAttached" \in flags[w]
  /\ \E w \in Widgets : Live(w) /\ parent[w] = NULL /\ "IsAttached" \notin flags[w]


\* =================================================== the split layout
\* ------------------------------------------------------------------ bounds
NS == 3          \* number of children of the split layout
MaxWidth == 6    \* largest panel width and handle position
MaxSize == 4     \* largest size handed to setSizes
MaxCalls == 3    \* number of calls made on a split layout

Spacing == 1     \* the spacing the layout was given (part_000 517-527)

\* --------------------------------------------------------------- numbers
\* Sizes are JavaScript numbers.  They are modelled as exact fractions
\* <<numerator, denominator>> in lowest terms with a positive denominator;
\* Infinity is <<1, 0>>.
Inf == <<1, 0>>
Zero == <<0, 1>>
Whole(n) == <<n, 1>>

RECURSIVE GCD(_, _)
GCD(a, b) == IF b = 0 THEN a ELSE GCD(b, a % b)

Abs(n) == IF n < 0 THEN -n ELSE n
Sign(n) == IF n > 0 THEN 1 ELSE IF n < 0 THEN -1 ELSE 0

Num(n, d) ==
  IF d = 0 THEN <<Sign(n), 0>>
  ELSE LET g == GCD(Abs(n), d) IN <<n \div g, d \div g>>

\* Infinity + Infinity is Infinity; Infinity - Infinity is NaN, <<0, 0>>.
Add(a, b) ==
  IF a[2] = 0 /\ b[2] = 0 THEN (IF a[1] = b[1] THEN a ELSE <<0, 0>>)
  ELSE Num(a[1] * b[2] + b[1] * a[2], a[2] * b[2])
Neg(a) == <<-a[1], a[2]>>
Sub(a, b) == Add(a, Neg(b))
Mul(a, b) == Num(a[1] * b[1], a[2] * b[2])
Div(a, b) == Num(a[1] * b[2] * Sign(b[1]), a[2] * Abs(b[1]))
Le(a, b) == a[1] * b[2] <= b[1] * a[2]
Less(a, b) == a[1] * b[2] < b[1] * a[2]
MathMin(a, b) == IF Le(a, b) THEN a ELSE b
MathMax(a, b) == IF Le(a, b) THEN b ELSE a
\* Math.floor of a finite number
MathFloor(a) == Whole(a[1] \div a[2])
\* An element offset read from the DOM is an integer: the laid-out position
\* rounded to the nearest pixel.
OffsetOf(a) == (2 * a[1] + a[2]) \div (2 * a[2])

RECURSIVE SumSeq(_)
SumSeq(q) == IF q = <<>> THEN Zero ELSE Add(Head(q), SumSeq(Tail(q)))

\* ----------------------------------------------------------- box sizers
\* A new BoxSizer: no hint, no size, unconstrained, stretch 1.  tag is the
\* identity of the object: the child the sizer was created for.
NewSizer ==
  [sizeHint |-> Zero, minSize |-> Zero, maxSize |-> Inf, stretch |-> 1, size |-> Zero,
   tag |-> 0]

\* Private.createSizer (part_000 1061-1065)
createSizer(size) == [NewSizer EXCEPT !.sizeHint = MathFloor(size)]

\* Private.averageSize (part_000 1090-1092); 0/0 is NaN, which `|| 0` turns to 0.
averageSize(sz) ==
  IF Len(sz) = 0 THEN Zero
  ELSE Div(SumSeq([i \in DOMAIN sz |-> sz[i].size]), Whole(Len(sz)))

Sizes(sz) == [i \in DOMAIN sz |-> sz[i].size]
TotalSize(sz) == SumSeq(Sizes(sz))
TotalMin(sz) == SumSeq([i \in DOMAIN sz |-> sz[i].minSize])
TotalMax(sz) == SumSeq([i \in DOMAIN sz |-> sz[i].maxSize])

RECURSIVE SumStretch(_, _)
SumStretch(sz, S) ==
  IF S = {} THEN 0
  ELSE LET i == CHOOSE j \in S : TRUE IN sz[i].stretch + SumStretch(sz, S \ {i})

\* One distribution step of the allocation: every sizer of `active` is
\* offered its share sh[i] of the free space in direction dir (1 grow, -1 shrink);
\* a sizer that would reach its bound stops at the bound and is done.
Distribute(sz, done, free, active, sh, dir) ==
  LET bound == [i \in DOMAIN sz |-> IF dir = 1 THEN sz[i].maxSize ELSE sz[i].minSize]
      room == [i \in DOMAIN sz |->
                 IF dir = 1 THEN Sub(bound[i], sz[i].size) ELSE Sub(sz[i].size, bound[i])]
      sat == [i \in DOMAIN sz |-> i \in active /\ Le(room[i], sh[i])]
      given == [i \in DOMAIN sz |->
                  IF i \notin active THEN Zero ELSE IF sat[i] THEN room[i] ELSE sh[i]]
  IN  [sz |-> [i \in DOMAIN sz |->
                 [sz[i] EXCEPT !.size = IF i \notin active THEN @
                                        ELSE IF sat[i] THEN bound[i]
                                        ELSE IF dir = 1 THEN Add(@, sh[i])
                                        ELSE Sub(@, sh[i])]],
       done |-> [i \in DOMAIN sz |-> done[i] \/ sat[i]],
       free |-> Sub(free, SumSeq(given))]

\* Distribution in proportion to stretch among the sizers with a positive
\* stretch that have not reached their bound, repeated while space is left.
RECURSIVE ByStretch(_, _, _, _)
ByStretch(sz, done, free, dir) ==
  LET active == {i \in DOMAIN sz : ~done[i] /\ sz[i].stretch > 0}
      total == SumStretch(sz, active)
      share == [i \in DOMAIN sz |->
                  IF i \in active THEN Div(Mul(Whole(sz[i].stretch), free), Whole(total))
                  ELSE Zero]
  IN  IF active = {} \/ ~Less(Zero, free) THEN [sz |-> sz, done |-> done, free |-> free]
      ELSE LET r == Distribute(sz, done, free, active, share, dir)
           IN  ByStretch(r.sz, r.done, r.free, dir)

\* What is left once every sizer with a positive stretch is at its bound goes
\* to the remaining sizers in equal parts.
RECURSIVE Equally(_, _, _, _)
Equally(sz, done, free, dir) ==
  LET active == {i \in DOMAIN sz : ~done[i]}
      share == [i \in DOMAIN sz |->
                  IF i \in active THEN Div(free, Whole(Cardinality(active))) ELSE Zero]
  IN  IF active = {} \/ ~Less(Zero, free) THEN sz
      ELSE LET r == Distribute(sz, done, free, active, share, dir)
           IN  Equally(r.sz, r.done, r.free, dir)

\* The clamped hint a sizer starts the allocation from.
initSizer(s) == [s EXCEPT !.size = MathMax(s.minSize, MathMin(s.sizeHint, s.maxSize))]

\* The allocation engine: distribute `space` over the sizers.
boxCalc(sz, space) ==
  IF Len(sz) = 0 THEN sz
  ELSE IF Le(space, TotalMin(sz)) THEN [i \in DOMAIN sz |-> [sz[i] EXCEPT !.size = sz[i].minSize]]
  ELSE IF Le(TotalMax(sz), space) THEN [i \in DOMAIN sz |-> [sz[i] EXCEPT !.size = sz[i].maxSize]]
  ELSE LET init == [i \in DOMAIN sz |-> initSizer(sz[i])]
           total == TotalSize(init)
           none == [i \in DOMAIN sz |-> FALSE]
           dir == IF Less(total, space) THEN 1 ELSE -1
           free == IF dir = 1 THEN Sub(space, total) ELSE Sub(total, space)
           r == ByStretch(init, none, free, dir)
       IN  IF total = space THEN init
           ELSE Equally(r.sz, r.done, r.free, dir)

\* ------------------------------------------------------ the split layout
\* The layout a call works on.
\* geom is the geometry the last update pass of the call gave the children.
SL == [sizers |-> sizers, handles |-> handles, fixed |-> fixed, dirty |-> dirty,
       posted |-> FALSE, parented |-> TRUE, geom |-> <<>>, sent |-> <<>>]

\* The layout after a step of a pass: `sent` lists, in order, the writes of
\* the dirty flag, the messages the pass sends and the update passes run.
note(L, what) == [L EXCEPT !.sent = Append(@, what)]

\* A split layout that was never installed on a widget: it has no parent
\* and, since children are attached through the parent, no sizers.
FreshLayout ==
  [sizers |-> <<>>, handles |-> <<>>, fixed |-> 0, dirty |-> FALSE,
   posted |-> FALSE, parented |-> FALSE, geom |-> <<>>, sent |-> <<>>]

\* SplitLayout.sizes (part_000 550-552); `sizes` names the argument of setSizes.
sizesOf(L) == [i \in DOMAIN L.sizers |-> L.sizers[i].size]

\* The kinds of child widgets: the size limits of the node along the
\* layout's axis (sizeLimits) and the stretch property of the widget
\* (part_000 1050-1055, default 0).
ChildKinds ==
  { [minSize |-> Zero, maxSize |-> Inf, stretch |-> 1],
    [minSize |-> Whole(1), maxSize |-> Whole(2), stretch |-> 2],
    [minSize |-> Whole(1), maxSize |-> Whole(3), stretch |-> 0] }

\* A write of sizeHint to the sizer at the 0-based index i.
SetHint(sz, i, v) == [sz EXCEPT ![i + 1].sizeHint = v]

\* part_000 1116-1128: grow the sizers from index i down to 0.
RECURSIVE growDown(_, _, _)
growDown(sz, i, grow) ==
  IF i < 0 \/ ~Less(Zero, grow) THEN sz
  ELSE LET s == sz[i + 1]
           limit == Sub(s.maxSize, s.size)
       IN  IF Le(grow, limit) THEN growDown(SetHint(sz, i, Add(s.size, grow)), i - 1, Zero)
           ELSE growDown(SetHint(sz, i, Add(s.size, limit)), i - 1, Sub(grow, limit))

\* part_000 1130-1142: shrink the sizers from index i up to the last.
RECURSIVE shrinkUp(_, _, _)
shrinkUp(sz, i, shrink) ==
  IF i >= Len(sz) \/ ~Less(Zero, shrink) THEN sz
  ELSE LET s == sz[i + 1]
           limit == Sub(s.size, s.minSize)
       IN  IF Le(shrink, limit) THEN shrinkUp(SetHint(sz, i, Sub(s.size, shrink)), i + 1, Zero)
           ELSE shrinkUp(SetHint(sz, i, Sub(s.size, limit)), i + 1, Sub(shrink, limit))

\* part_000 1167-1179: grow the sizers from index i up to the last.
RECURSIVE growUp(_, _, _)
growUp(sz, i, grow) ==
  IF i >= Len(sz) \/ ~Less(Zero, grow) THEN sz
  ELSE LET s == sz[i + 1]
           limit == Sub(s.maxSize, s.size)
       IN  IF Le(grow, limit) THEN growUp(SetHint(sz, i, Add(s.size, grow)), i + 1, Zero)
           ELSE growUp(SetHint(sz, i, Add(s.size, limit)), i + 1, Sub(grow, limit))

\* part_000 1181-1193: shrink the sizers from index i down to 0.
RECURSIVE shrinkDown(_, _, _)
shrinkDown(sz, i, shrink) ==
  IF i < 0 \/ ~Less(Zero, shrink) THEN sz
  ELSE LET s == sz[i + 1]
           limit == Sub(s.size, s.minSize)
       IN  IF Le(shrink, limit) THEN shrinkDown(SetHint(sz, i, Sub(s.size, shrink)), i - 1, Zero)
           ELSE shrinkDown(SetHint(sz, i, Sub(s.size, limit)), i - 1, Sub(shrink, limit))

\* The room the sizers at the 1-based positions lo..hi have to grow, and to
\* shrink (part_000 1099-1111, 1150-1162).
GrowRoom(sz, lo, hi) == SumSeq([j \in 1..(hi - lo + 1) |-> Sub(sz[lo + j - 1].maxSize, sz[lo + j - 1].size)])
ShrinkRoom(sz, lo, hi) == SumSeq([j \in 1..(hi - lo + 1) |-> Sub(sz[lo + j - 1].size, sz[lo + j - 1].minSize)])

\* A clamp that looks at the growing side only.
growDeltaOneSided(sz, index, delta) ==
  MathMin(delta, GrowRoom(sz, 1, index + 1))

\* The delta a grow at `index` is clamped to (part_000 1099-1114).
growDelta(sz, index, delta) ==
  MathMin(MathMin(delta, GrowRoom(sz, 1, index + 1)), ShrinkRoom(sz, index + 2, Len(sz)))

\* The delta a shrink at `index` is clamped to (part_000 1150-1165).
shrinkDelta(sz, index, delta) ==
  MathMin(MathMin(delta, GrowRoom(sz, index + 2, Len(sz))), ShrinkRoom(sz, 1, index + 1))

\* A grow that moves the sizes themselves instead of the hints.
growSizerWritesSize(sz, index, delta) ==
  LET d == growDelta(sz, index, delta)
      r == shrinkUp(growDown(sz, index, d), index + 1, d)
  IN  [i \in DOMAIN sz |-> [r[i] EXCEPT !.size = r[i].sizeHint]]

\* A grow clamped to the room of the growing side only.
growSizerToGrowLimit(sz, index, delta) ==
  LET d == MathMin(delta, GrowRoom(sz, 1, index + 1))
  IN  shrinkUp(growDown(sz, index, d), index + 1, d)

\* A grow whose growing side is taken up by the sizer farthest from the
\* boundary.
growSizerFarthestFirst(sz, index, delta) ==
  LET d == growDelta(sz, index, delta)
      far == IF Less(Zero, d) THEN SetHint(sz, 0, Add(sz[1].size, d)) ELSE sz
  IN  shrinkUp(far, index + 1, d)

\* Private.growSizer (part_000 1098-1143)
growSizer(sz, index, delta) ==
  LET d == growDelta(sz, index, delta)
  IN  shrinkUp(growDown(sz, index, d), index + 1, d)

\* A shrink clamped to the room of the growing side only.
shrinkSizerToGrowLimit(sz, index, delta) ==
  LET d == MathMin(delta, GrowRoom(sz, index + 2, Len(sz)))
  IN  shrinkDown(growUp(sz, index + 1, d), index, d)

\* Private.shrinkSizer (part_000 1149-1194)
shrinkSizer(sz, index, delta) ==
  LET d == shrinkDelta(sz, index, delta)
  IN  shrinkDown(growUp(sz, index + 1, d), index, d)

\* part_000 614-617: pin the hint of every sizer with a positive size.
pinHints(sz) ==
  [i \in DOMAIN sz |-> IF Less(Zero, sz[i].size) THEN [sz[i] EXCEPT !.sizeHint = sz[i].size] ELSE sz[i]]

\* this.parent.update() (part_000 575, 627; widget.ts 392-394): the layout
\* is installed on the panel, so an update-request is posted to the panel.
\* The request is delivered later, as a step of its own.
postUpdate(L) == IF L.parented THEN [L EXCEPT !.posted = TRUE] ELSE L

\* A move that posts no update when the clamped delta leaves the hints as
\* they were pinned.
setHandlePositionQuietOnZero(L, index, position) ==
  IF index < 0 \/ index >= Len(L.handles) THEN L
  ELSE IF L.handles[index + 1].hidden THEN L
  ELSE LET delta == position - OffsetOf(L.handles[index + 1].left)
           sz == pinHints(L.sizers)
           r == IF delta > 0 THEN growSizer(sz, index, Whole(delta))
                ELSE shrinkSizer(sz, index, Whole(-delta))
       IN  IF delta = 0 THEN L
           ELSE IF r = sz THEN [L EXCEPT !.sizers = r]
           ELSE postUpdate([L EXCEPT !.sizers = r])

\* A move that goes on when the handle is already at the position.
setHandlePositionNoBail(L, index, position) ==
  IF index < 0 \/ index >= Len(L.handles) THEN L
  ELSE IF L.handles[index + 1].hidden THEN L
  ELSE LET delta == position - OffsetOf(L.handles[index + 1].left)
           sz == pinHints(L.sizers)
       IN  IF delta > 0
             THEN postUpdate([L EXCEPT !.sizers = growSizer(sz, index, Whole(delta))])
             ELSE postUpdate([L EXCEPT !.sizers = shrinkSizer(sz, index, Whole(-delta))])

\* SplitLayout.setHandlePosition (part_000 594-628); the update it asks for
\* is posted, not run.
setHandlePosition(L, index, position) ==
  IF index < 0 \/ index >= Len(L.handles) THEN L
  ELSE IF L.handles[index + 1].hidden THEN L
  ELSE LET delta == position - OffsetOf(L.handles[index + 1].left)
           sz == pinHints(L.sizers)
       IN  IF delta = 0 THEN L
           ELSE IF delta > 0
             THEN postUpdate([L EXCEPT !.sizers = growSizer(sz, index, Whole(delta))])
             ELSE postUpdate([L EXCEPT !.sizers = shrinkSizer(sz, index, Whole(-delta))])

\* A setSizes that writes the hints and leaves the sizes to the next pass.
setSizesHintOnly(L, sizes) ==
  LET n == IF Len(sizes) < Len(L.sizers) THEN Len(sizes) ELSE Len(L.sizers)
  IN  postUpdate([L EXCEPT !.sizers =
         [i \in DOMAIN L.sizers |->
            IF i <= n
              THEN LET hint == MathMax(Zero, Whole(sizes[i]))
                   IN  [L.sizers[i] EXCEPT !.sizeHint = hint]
              ELSE L.sizers[i]]])

\* SplitLayout.setSizes (part_000 567-576); the update it asks for is posted.
setSizes(L, sizes) ==
  LET n == IF Len(sizes) < Len(L.sizers) THEN Len(sizes) ELSE Len(L.sizers)
  IN  postUpdate([L EXCEPT !.sizers =
         [i \in DOMAIN L.sizers |->
            IF i <= n
              THEN LET hint == MathMax(Zero, Whole(sizes[i]))
                   IN  [L.sizers[i] EXCEPT !.sizeHint = hint, !.size = hint]
              ELSE L.sizers[i]]])

\* The left edge of the handle of each child after the layout pass
\* (part_000 932-958): hidden children take no room and keep their handle
\* where it was.  The panel has no border or padding.
RECURSIVE placeHandles(_, _, _, _, _)
placeHandles(hs, sz, hid, i, left) ==
  IF i > Len(hs) THEN hs
  ELSE IF hid[i] THEN placeHandles(hs, sz, hid, i + 1, left)
  ELSE LET at == Add(left, sz[i].size)
       IN  placeHandles([hs EXCEPT ![i].left = at], sz, hid, i + 1,
                        Add(at, Whole(Spacing)))

\* The panel's offsetHeight: the extent across the layout's axis.
PanelHeight == 5

\* A child the update pass gave no geometry.
NoGeometry == [placed |-> FALSE, left |-> Zero, top |-> Zero, width |-> Zero, height |-> Zero]

\* A placement in which a hidden child still takes up a spacing.
RECURSIVE placeWidgetsCountsHidden(_, _, _, _, _)
placeWidgetsCountsHidden(gs, sz, hid, i, left) ==
  IF i > Len(gs) THEN gs
  ELSE IF hid[i] THEN placeWidgetsCountsHidden(gs, sz, hid, i + 1, Add(left, Whole(Spacing)))
  ELSE LET g == [placed |-> TRUE, left |-> left, top |-> Zero,
                 width |-> sz[i].size, height |-> Whole(PanelHeight)]
       IN  placeWidgetsCountsHidden([gs EXCEPT ![i] = g], sz, hid, i + 1,
                                    Add(Add(left, sz[i].size), Whole(Spacing)))

\* setGeometry(widget, left, top, size, height) for each child that is not
\* hidden (part_000 932-945), in a horizontal layout without padding.
RECURSIVE placeWidgets(_, _, _, _, _)
placeWidgets(gs, sz, hid, i, left) ==
  IF i > Len(gs) THEN gs
  ELSE IF hid[i] THEN placeWidgets(gs, sz, hid, i + 1, left)
  ELSE LET g == [placed |-> TRUE, left |-> left, top |-> Zero,
                 width |-> sz[i].size, height |-> Whole(PanelHeight)]
       IN  placeWidgets([gs EXCEPT ![i] = g], sz, hid, i + 1,
                        Add(Add(left, sz[i].size), Whole(Spacing)))

\* An update pass that leaves the sizes as they are.
updateSkipsCalc(L, hid, width) ==
  LET L1 == [L EXCEPT !.dirty = FALSE]
  IN  IF Len(L.sizers) = 0 THEN L1
      ELSE [L1 EXCEPT !.handles = placeHandles(L.handles, L.sizers, hid, 1, Zero)]

\* An update pass that hands out the room of the handles as well.
updateIgnoresFixed(L, hid, width) ==
  LET L1 == [L EXCEPT !.dirty = FALSE]
  IN  IF Len(L.sizers) = 0 THEN L1
      ELSE LET space == MathMax(Zero, Whole(width))
               sz == boxCalc(L.sizers, space)
           IN  [L1 EXCEPT !.sizers = sz,
                          !.handles = placeHandles(L.handles, sz, hid, 1, Zero)]

\* SplitLayout._update (part_000 893-959) for a panel of the given width.
update(L, hid, width) ==
  LET L1 == note([L EXCEPT !.dirty = FALSE], "update")
  IN  IF Len(L.sizers) = 0 THEN L1
      ELSE LET space == MathMax(Zero, Whole(width - L.fixed))
               sz == boxCalc(L.sizers, space)
           IN  [L1 EXCEPT !.sizers = sz,
                          !.handles = placeHandles(L.handles, sz, hid, 1, Zero),
                          !.geom = placeWidgets([i \in DOMAIN sz |-> NoGeometry],
                                                sz, hid, 1, Zero)]

\* The 1-based position of the last child that is not hidden, 0 if none.
LastShown(hid) ==
  IF \E i \in DOMAIN hid : ~hid[i]
    THEN CHOOSE i \in DOMAIN hid : ~hid[i] /\ \A j \in DOMAIN hid : j > i => hid[j]
    ELSE 0

NVisible(hid) == Cardinality({i \in DOMAIN hid : ~hid[i]})

\* A fit pass that leaves the handle of the last shown child visible.
fitShowsLastHandle(L, hid, kinds, visible, width) ==
  LET hs == [i \in DOMAIN L.handles |-> [L.handles[i] EXCEPT !.hidden = hid[i]]]
      n == NVisible(hid)
      fx == Spacing * (IF n > 1 THEN n - 1 ELSE 0)
      sz == [i \in DOMAIN L.sizers |->
               LET s == IF Less(Zero, L.sizers[i].size)
                          THEN [L.sizers[i] EXCEPT !.sizeHint = L.sizers[i].size]
                          ELSE L.sizers[i]
               IN  IF hid[i] THEN [s EXCEPT !.minSize = Zero, !.maxSize = Zero]
                   ELSE [s EXCEPT !.stretch = kinds[i].stretch,
                                  !.minSize = kinds[i].minSize,
                                  !.maxSize = kinds[i].maxSize]]
      L1 == [L EXCEPT !.sizers = sz, !.handles = hs, !.fixed = fx, !.dirty = TRUE]
  IN  IF visible THEN update(L1, hid, width) ELSE L1

\* SplitLayout._fit up to the write of the dirty flag (part_000 794-875) for
\* children of the given kinds.
fitPass(L, hid, kinds) ==
  LET hs == [i \in DOMAIN L.handles |->
               [L.handles[i] EXCEPT !.hidden = hid[i] \/ i = LastShown(hid)]]
      n == NVisible(hid)
      fx == Spacing * (IF n > 1 THEN n - 1 ELSE 0)
      sz == [i \in DOMAIN L.sizers |->
               LET s == IF Less(Zero, L.sizers[i].size)
                          THEN [L.sizers[i] EXCEPT !.sizeHint = L.sizers[i].size]
                          ELSE L.sizers[i]
               IN  IF hid[i] THEN [s EXCEPT !.minSize = Zero, !.maxSize = Zero]
                   ELSE [s EXCEPT !.stretch = kinds[i].stretch,
                                  !.minSize = kinds[i].minSize,
                                  !.maxSize = kinds[i].maxSize]]
  IN  note([L EXCEPT !.sizers = sz, !.handles = hs, !.fixed = fx, !.dirty = TRUE], "dirty")

\* SplitLayout.onResize and onUpdateRequest (part_000 767-780): the update
\* pass runs if the panel is visible.
onResize(L, hid, visible, width) == IF visible THEN update(L, hid, width) ELSE L
onUpdateRequest(L, hid, visible, width) == IF visible THEN update(L, hid, width) ELSE L

\* What the panel's parent is to a fit pass: there is none, or its fit leaves
\* the panel's size alone, or its fit resizes the panel.
Ancestors == {"none", "still", "resizes"}

\* part_000 879-880: the fit-request sent to the panel's parent, handled
\* before sendMessage returns.
notifyAncestor(L, hid, visible, width, ancestor) ==
  CASE ancestor = "none" -> L
    [] ancestor = "still" -> note(L, "fit-request")
    [] OTHER -> onResize(note(L, "fit-request"), hid, visible, width)

\* A fit pass that sends the update-request whatever the dirty flag says.
fitUnderAlwaysUpdates(L, hid, kinds, visible, width, ancestor) ==
  LET L1 == notifyAncestor(fitPass(L, hid, kinds), hid, visible, width, ancestor)
  IN  onUpdateRequest(note(L1, "update-request"), hid, visible, width)

\* SplitLayout._fit (part_000 794-886) for a panel under the given ancestor.
fitUnder(L, hid, kinds, visible, width, ancestor) ==
  LET L1 == notifyAncestor(fitPass(L, hid, kinds), hid, visible, width, ancestor)
  IN  IF L1.dirty THEN onUpdateRequest(note(L1, "update-request"), hid, visible, width)
      ELSE L1

\* SplitLayout._fit (part_000 794-886) for a panel that has no parent, so
\* the update request is sent to the panel itself, whose layout runs the
\* update pass if the panel is visible (776-780).
fit(L, hid, kinds, visible, width) == fitUnder(L, hid, kinds, visible, width, "none")

\* ------------------------------------------------------------- the machine
\* A split layout whose children have been added: every child got a sizer
\* with the floored average size as hint and a handle (part_000 640-660).
RECURSIVE attachAll(_, _)
attachAll(sz, n) ==
  IF n = 0 THEN sz
  ELSE attachAll(Append(sz, [createSizer(averageSize(sz)) EXCEPT !.tag = Len(sz) + 1]), n - 1)

InitSplit ==
  /\ flags = [w \in Widgets |-> {}]
  /\ parent = [w \in Widgets |-> NULL]
  /\ layout = [w \in Widgets |-> NULL]
  /\ node = [w \in Widgets |-> TRUE]
  /\ dom = [w \in Widgets |-> NULL]
  /\ lparent = [l \in Layouts |-> NULL]
  /\ lwidgets = [l \in Layouts |-> <<>>]
  /\ ldisposed = [l \in Layouts |-> FALSE]
  /\ err = NoErr
  /\ sizers = attachAll(<<>>, NS)
  /\ handles = [i \in 1..NS |-> [hidden |-> FALSE, left |-> Zero, tag |-> i]]
  /\ fixed = 0
  /\ dirty = FALSE
  /\ ckind \in [1..NS -> ChildKinds]
  /\ chidden = [i \in 1..NS |-> FALSE]
  /\ pvisible = TRUE
  /\ calls = 0
  /\ IdlePanel

CommitSplit(L) ==
  /\ calls < MaxCalls
  /\ calls' = calls + 1
  /\ sizers' = L.sizers
  /\ handles' = L.handles
  /\ fixed' = L.fixed
  /\ dirty' = L.dirty
  /\ UNCHANGED <<wvars, dvars>>

\* A fit-request reaches the layout of the attached panel (part_000 785-789).
Fit(width) ==
  /\ \E ancestor \in Ancestors : CommitSplit(fitUnder(SL, chidden, ckind, pvisible, width, ancestor))
  /\ UNCHANGED <<ckind, chidden, pvisible>>

\* A resize or an update-request reaches the layout (part_000 767-780).
Update(width) ==
  /\ pvisible
  /\ CommitSplit(update(SL, chidden, width))
  /\ UNCHANGED <<ckind, chidden, pvisible>>

SetSizes(sizes) ==
  /\ CommitSplit(setSizes(SL, sizes))
  /\ UNCHANGED <<ckind, chidden, pvisible>>

SetHandlePosition(index, position) ==
  /\ CommitSplit(setHandlePosition(SL, index, position))
  /\ UNCHANGED <<ckind, chidden, pvisible>>

\* A child is hidden or shown (widget.ts 424-458); the fit the layout asks
\* for is posted (part_000 745-762).
ToggleChild(i) ==
  /\ calls < MaxCalls
  /\ calls' = calls + 1
  /\ chidden' = [chidden EXCEPT ![i] = ~@]
  /\ UNCHANGED <<wvars, dvars, sizers, handles, fixed, dirty, ckind, pvisible>>

\* The panel becomes visible or stops being visible; the update the layout
\* asks for on after-show is posted (part_000 729-732).
TogglePanel ==
  /\ calls < MaxCalls
  /\ calls' = calls + 1
  /\ pvisible' = ~pvisible
  /\ UNCHANGED <<wvars, dvars, sizers, handles, fixed, dirty, ckind, chidden>>

Widths == 0..MaxWidth
SizeChoices == {-1, MaxSize}

NextSplit ==
  \/ \E width \in Widths : Fit(width)
  \/ \E width \in Widths : Update(width)
  \/ \E sizes \in [1..NS -> SizeChoices] : SetSizes(sizes)
  \/ \E index \in 0..NS, position \in Widths : SetHandlePosition(index, position)
  \/ \E i \in 1..NS : ToggleChild(i)
  \/ TogglePanel

SpecSplit == InitSplit /\ [][NextSplit]_vars


\* ------------------------------------------------- claims on the sizers
Within(s) == Le(s.minSize, s.size) /\ Le(s.size, s.maxSize)

\* The call moves a handle: the handle exists, is not hidden, and the
\* position differs from where the handle is.
IsMove(index, position) ==
  /\ index >= 0 /\ index < Len(handles)
  /\ ~handles[index + 1].hidden
  /\ position # OffsetOf(handles[index + 1].left)

\* C2 as stated: for any interactive move at a handle the sum of the sizes
\* is the same before and after the call, and after the call no sizer's size
\* is outside its [minSize, maxSize].
C2_MoveKeepsTotalWithinLimits ==
  \A index \in 0..NS, position \in Widths :
    IsMove(index, position) =>
      LET L == setHandlePosition(SL, index, position) IN
        /\ TotalSize(L.sizers) = TotalSize(sizers)
        /\ \A i \in DOMAIN L.sizers : Within(L.sizers[i])

\* C2, amended: an interactive move writes no sizer's size, minSize or
\* maxSize (it writes hints only), so the sum of the sizes is the same
\* before and after the call and every sizer whose size was within its
\* [minSize, maxSize] before the call is within it after the call.
C2_MoveLeavesSizes ==
  \A index \in 0..NS, position \in Widths :
    IsMove(index, position) =>
      LET L == setHandlePosition(SL, index, position) IN
        /\ Len(L.sizers) = Len(sizers)
        /\ TotalSize(L.sizers) = TotalSize(sizers)
        /\ \A i \in DOMAIN sizers :
             /\ L.sizers[i].size = sizers[i].size
             /\ L.sizers[i].minSize = sizers[i].minSize
             /\ L.sizers[i].maxSize = sizers[i].maxSize
             /\ Within(sizers[i]) => Within(L.sizers[i])

\* Reachable: after a layout pass a handle can be moved by a positive and by
\* a negative delta, each changing the hints of sizers on both sides.
C2_Witness ==
  /\ ~dirty
  /\ \A i \in DOMAIN sizers : Within(sizers[i])
  /\ \E index \in 0..(NS - 1) : \E p1, p2 \in Widths :
       /\ IsMove(index, p1) /\ p1 > OffsetOf(handles[index + 1].left)
       /\ IsMove(index, p2) /\ p2 < OffsetOf(handles[index + 1].left)
       /\ \A p \in {p1, p2} :
            LET L == setHandlePosition(SL, index, p) IN
              /\ \E i \in 1..(index + 1) : L.sizers[i].sizeHint # sizers[i].size
              /\ \E i \in (index + 2)..NS : L.sizers[i].sizeHint # sizers[i].size

\* C3: after any allocation pass (the update pass of the split layout, for
\* any panel width) every sizer has minSize <= size <= maxSize.
C3_AllocationWithinLimits ==
  \A width \in Widths :
    LET L == update(SL, chidden, width) IN
      \A i \in DOMAIN L.sizers : Within(L.sizers[i])

\* Reachable: an update pass has run on sizers of which one had its size
\* above its maximum and one below its minimum, and the pass brings in the
\* first by shrinking and leaves another strictly between its bounds.
C3_Witness ==
  /\ \E i \in DOMAIN sizers : Less(sizers[i].maxSize, sizers[i].size)
  /\ \E i \in DOMAIN sizers : Less(sizers[i].size, sizers[i].minSize)
  /\ \E width \in Widths :
       LET L == update(SL, chidden, width) IN
         /\ \A i \in DOMAIN L.sizers : Within(L.sizers[i])
         /\ \E i \in DOMAIN L.sizers :
              Less(L.sizers[i].minSize, L.sizers[i].size) /\ Less(L.sizers[i].size, L.sizers[i].maxSize)

AllFinite(sz) == \A i \in DOMAIN sz : sz[i].maxSize[2] # 0

\* C4: when every maxSize is finite and the space available to the sizers
\* (the panel width less the fixed spacing) lies between the sum of the
\* minSizes and the sum of the maxSizes, then after the allocation pass the
\* sum of the sizes plus the fixed spacing equals the panel width exactly.
C4_AllocationFillsSpace ==
  \A width \in Widths :
    LET space == Whole(width - fixed)
        L == update(SL, chidden, width)
    IN  (AllFinite(sizers) /\ Le(TotalMin(sizers), space) /\ Le(space, TotalMax(sizers))) =>
          Add(TotalSize(L.sizers), Whole(fixed)) = Whole(width)

\* Reachable: sizers with finite maxima, fixed spacing in play, and a width
\* strictly between the bounds for which the pass has to hand out space the
\* hints did not ask for, to a fraction of a pixel.
C4_Witness ==
  /\ AllFinite(sizers)
  /\ fixed > 0
  /\ \E width \in Widths :
       LET space == Whole(width - fixed)
           L == update(SL, chidden, width)
       IN  /\ Less(TotalMin(sizers), space) /\ Less(space, TotalMax(sizers))
           /\ TotalSize([i \in DOMAIN sizers |-> initSizer(sizers[i])]) # space
           /\ \E i \in DOMAIN L.sizers : L.sizers[i].size[2] > 1
           /\ Add(TotalSize(L.sizers), Whole(fixed)) = Whole(width)


\* ------------------------------------------- claims on message processing
\* The calls user code makes on a widget that is not disposed, as records
\* [t, w, c, l], with the guards of the actions.
LiveCalls ==
  {[t |-> t, w |-> w, c |-> NULL, l |-> NULL] :
     t \in {"detach", "show", "hide", "close", "dispose"}, w \in {x \in Widgets : Live(x)}}
  \cup {[t |-> "attach", w |-> w, c |-> h, l |-> NULL] :
          w \in {x \in Widgets : Live(x)}, h \in {0, 1}}
  \cup {[t |-> "setParent", w |-> w, c |-> NULL, l |-> NULL] : w \in {x \in Widgets : Live(x)}}
  \cup {[t |-> "addWidget", w |-> w, c |-> NULL, l |-> l] :
          w \in {x \in Widgets : Live(x)},
          l \in {y \in Layouts : lparent[y] # NULL /\ Live(lparent[y])}}

LogOf(call) == Call(St, call.t, call.w, call.c, call.l).log

\* The event at position i of the log is the send of message m.
IsSendOf(lg, i, m) == lg[i].k = "send" /\ lg[i].m = m

\* The position of the own handler that processes the send at position i:
\* the first handler event after i of that widget and message, one level
\* below the send; 0 if there is none.
HandlerOf(lg, i) ==
  LET js == {j \in (i + 1)..Len(lg) :
               /\ lg[j].k = "handler" /\ lg[j].w = lg[i].w
               /\ lg[j].m = lg[i].m /\ lg[j].d = lg[i].d + 1}
  IN  IF js = {} THEN 0 ELSE CHOOSE j \in js : \A j2 \in js : j <= j2

\* The layout is told first: right after the send, when the widget has a
\* layout, comes the layout's event, and the own handler comes after it;
\* without a layout the own handler comes right after the send.
LayoutThenHandler(lg, i) ==
  LET w == lg[i].w
      j == HandlerOf(lg, i)
  IN  /\ j # 0
      /\ IF layout[w] # NULL
           THEN /\ lg[i + 1].k = "layout" /\ lg[i + 1].w = w /\ lg[i + 1].m = lg[i].m
                /\ i + 1 < j
           ELSE j = i + 1

\* C11: processing after-attach sets Attached, and sets Visible exactly when
\* the widget is not Hidden and has no parent or a Visible parent (otherwise
\* the Visible flag is left as it was); the layout is told first and the
\* widget's own onAfterAttach second, both with the flags already written.
C11_AfterAttach ==
  \A call \in {x \in LiveCalls : x.t \in {"attach", "addWidget"}} :
    LET lg == LogOf(call) IN
      \A i \in 1..Len(lg) :
        IsSendOf(lg, i, "after-attach") =>
          LET j == HandlerOf(lg, i)
              cond == "IsHidden" \notin lg[i].f /\ (lg[i].p = NULL \/ "IsVisible" \in lg[i].pf)
              after == lg[i].f \cup {"IsAttached"} \cup (IF cond THEN {"IsVisible"} ELSE {})
          IN  /\ LayoutThenHandler(lg, i)
              /\ lg[j].f = after
              /\ lg[i + 1].f = after

\* Reachable: a widget with a layout holding a hidden and a shown child is
\* attached; the layout hears of it before the handler, the shown child
\* becomes visible and the hidden one only attached.
C11_Witness ==
  \E w \in Widgets :
    /\ Live(w) /\ layout[w] # NULL /\ parent[w] = NULL /\ flags[w] = {}
    /\ \E a, b \in Widgets :
         /\ parent[a] = w /\ parent[b] = w
         /\ flags[a] = {"IsHidden"} /\ flags[b] = {}
         /\ LET s == Call(St, "attach", w, 1, NULL) IN
              /\ s.err = NoErr
              /\ s.flags[w] = {"IsAttached", "IsVisible"}
              /\ s.flags[a] = {"IsHidden", "IsAttached"}
              /\ s.flags[b] = {"IsAttached", "IsVisible"}


\* C12: processing before-detach tells the layout and then the widget's own
\* onBeforeDetach while the flags are as they were when the message arrived
\* (Attached, and Visible if it was set, still set); only after the handler
\* are Visible and Attached cleared, in that order.
C12_BeforeDetach ==
  \A call \in {x \in LiveCalls : x.t \in {"detach", "close", "dispose", "setParent", "addWidget"}} :
    LET lg == LogOf(call) IN
      \A i \in 1..Len(lg) :
        IsSendOf(lg, i, "before-detach") =>
          LET j == HandlerOf(lg, i)
              w == lg[i].w
          IN  /\ LayoutThenHandler(lg, i)
              /\ lg[i + 1].f = lg[i].f
              /\ lg[j].f = lg[i].f
              /\ \A x \in (i + 1)..(j - 1) : ~(lg[x].k = "clear" /\ lg[x].w = w)
              /\ Len(lg) >= j + 2
              /\ lg[j + 1].k = "clear" /\ lg[j + 1].w = w /\ lg[j + 1].c = "IsVisible"
              /\ lg[j + 1].f = lg[i].f \ {"IsVisible"}
              /\ lg[j + 2].k = "clear" /\ lg[j + 2].w = w /\ lg[j + 2].c = "IsAttached"
              /\ lg[j + 2].f = lg[i].f \ {"IsVisible", "IsAttached"}

\* Reachable: an attached, visible root whose layout holds an attached,
\* visible child is detached; both end neither attached nor visible.
C12_Witness ==
  \E w, a \in Widgets :
    /\ Live(w) /\ layout[w] # NULL /\ parent[w] = NULL /\ parent[a] = w
    /\ flags[w] = {"IsAttached", "IsVisible"}
    /\ flags[a] = {"IsAttached", "IsVisible"}
    /\ LET s == Call(St, "detach", w, NULL, NULL) IN
         /\ s.err = NoErr
         /\ s.flags[w] = {} /\ s.flags[a] = {}
         /\ \E i \in 1..Len(s.log) : IsSendOf(s.log, i, "before-detach") /\ s.log[i].w = a


\* C13 (as stated): on after-show the Visible flag is set only after the
\* layout and the widget's own handler were notified, so both observe the
\* flags the widget had before the message.
C13_AfterShowSetsLast ==
  \A call \in {x \in LiveCalls : x.t = "show"} :
    LET lg == LogOf(call) IN
      \A i \in 1..Len(lg) :
        IsSendOf(lg, i, "after-show") =>
          /\ LayoutThenHandler(lg, i)
          /\ lg[i + 1].f = lg[i].f
          /\ lg[HandlerOf(lg, i)].f = lg[i].f

\* C13 (amended): on after-show the Visible flag is set first; the layout and
\* then the widget's own handler are notified afterwards and both observe the
\* widget as visible.
C13_AfterShowSetsFirst ==
  \A call \in {x \in LiveCalls : x.t = "show"} :
    LET lg == LogOf(call) IN
      \A i \in 1..Len(lg) :
        IsSendOf(lg, i, "after-show") =>
          /\ LayoutThenHandler(lg, i)
          /\ lg[i + 1].f = lg[i].f \cup {"IsVisible"}
          /\ lg[HandlerOf(lg, i)].f = lg[i].f \cup {"IsVisible"}

\* Reachable: a hidden attached root whose layout holds a child that is not
\* hidden is shown; after-show reaches both and both become visible.
C13_Witness ==
  \E w, a \in Widgets :
    /\ Live(w) /\ layout[w] # NULL /\ parent[w] = NULL /\ parent[a] = w
    /\ flags[w] = {"IsHidden", "IsAttached"}
    /\ flags[a] = {"IsAttached"}
    /\ LET s == Call(St, "show", w, NULL, NULL) IN
         /\ s.err = NoErr
         /\ s.flags[w] = {"IsAttached", "IsVisible"}
         /\ s.flags[a] = {"IsAttached", "IsVisible"}
         /\ \E i \in 1..Len(s.log) : IsSendOf(s.log, i, "after-show") /\ s.log[i].w = a


\* ------------------------------------------------- claims on show and hide

\* The number of sends of message m to widget w in a log.
SendCount(lg, w, m) ==
  Cardinality({i \in 1..Len(lg) : IsSendOf(lg, i, m) /\ lg[i].w = w})

\* The widget is attached and has no parent or a visible parent.
Showable(w) ==
  /\ "IsAttached" \in flags[w]
  /\ (parent[w] = NULL \/ "IsVisible" \in flags[parent[w]])

\* C14: show() sends after-show to the widget exactly when the widget was
\* Hidden, is attached and has no parent or a visible parent, and hide() sends
\* before-hide exactly when the widget was not Hidden, is attached and has no
\* parent or a visible parent; in every other case neither message is sent
\* to the widget and its Visible flag is unchanged.
C14_ShowHideSendWhenShowable ==
  \A w \in {x \in Widgets : Live(x)} :
    LET sh == Call(St, "show", w, NULL, NULL)
        hd == Call(St, "hide", w, NULL, NULL)
        showCase == "IsHidden" \in flags[w] /\ Showable(w)
        hideCase == "IsHidden" \notin flags[w] /\ Showable(w)
    IN  /\ SendCount(sh.log, w, "after-show") = (IF showCase THEN 1 ELSE 0)
        /\ SendCount(sh.log, w, "before-hide") = 0
        /\ ~showCase => ("IsVisible" \in sh.flags[w] <=> "IsVisible" \in flags[w])
        /\ SendCount(hd.log, w, "before-hide") = (IF hideCase THEN 1 ELSE 0)
        /\ SendCount(hd.log, w, "after-show") = 0
        /\ ~hideCase => ("IsVisible" \in hd.flags[w] <=> "IsVisible" \in flags[w])

\* Reachable: a hidden attached root that show() sends after-show to, beside
\* a hidden widget that is not attached, whose show() sends it nothing, and
\* an attached visible root that hide() sends before-hide to.
C14_Witness ==
  \E w, u, v \in Widgets :
    /\ Live(w) /\ Live(u) /\ Live(v)
    /\ flags[w] = {"IsHidden", "IsAttached"} /\ parent[w] = NULL
    /\ flags[u] = {"IsHidden"}
    /\ flags[v] = {"IsAttached", "IsVisible"} /\ parent[v] = NULL
    /\ SendCount(Call(St, "show", w, NULL, NULL).log, w, "after-show") = 1
    /\ Call(St, "show", u, NULL, NULL).flags[u] = {}
    /\ SendCount(Call(St, "show", u, NULL, NULL).log, u, "after-show") = 0
    /\ SendCount(Call(St, "hide", v, NULL, NULL).log, v, "before-hide") = 1


\* C15: show() on a widget that is not Hidden and hide() on a widget that is
\* Hidden change no flag (nor anything else), send no message to the widget
\* or to its parent, and raise no error.
C15_ShowHideNoOp ==
  \A w \in {x \in Widgets : Live(x)} :
    /\ "IsHidden" \notin flags[w] =>
         LET s == Call(St, "show", w, NULL, NULL) IN Same(s) /\ Quiet(s)
    /\ "IsHidden" \in flags[w] =>
         LET s == Call(St, "hide", w, NULL, NULL) IN Same(s) /\ Quiet(s)

\* Reachable: an attached, visible child is shown again and its hidden,
\* attached sibling is hidden again; both calls leave everything alone.
C15_Witness ==
  \E w, u \in Widgets :
    /\ Live(w) /\ Live(u) /\ w # u
    /\ parent[w] # NULL /\ parent[u] = parent[w]
    /\ flags[w] = {"IsAttached", "IsVisible"}
    /\ flags[u] = {"IsHidden", "IsAttached"}
    /\ Quiet(Call(St, "show", w, NULL, NULL))
    /\ Quiet(Call(St, "hide", u, NULL, NULL))


\* The positions of the sends of message m about child w to widget p.
ChildSends(lg, p, m, w) ==
  {i \in 1..Len(lg) : IsSendOf(lg, i, m) /\ lg[i].w = p /\ lg[i].c = w}

\* Every event of message m in the log comes before position i.
AllBefore(lg, m, i) == \A x \in 1..Len(lg) : lg[x].m = m => x < i

\* C16: when hide() (show()) changes the Hidden flag of a widget that has a
\* parent, the parent is sent exactly one child-hidden (child-shown) about
\* it and none of the other kind, whether or not the widget is attached; at
\* that send the child's Hidden flag is already updated and the child's own
\* before-hide (after-show), if it was sent, has been processed to the end,
\* so its Visible flag is updated as well.
C16_ParentToldLast ==
  \A w \in {x \in Widgets : Live(x) /\ parent[x] # NULL} :
    LET p == parent[w] IN
    /\ "IsHidden" \notin flags[w] =>
         LET lg == Call(St, "hide", w, NULL, NULL).log
             is == ChildSends(lg, p, "child-hidden", w)
         IN  /\ Cardinality(is) = 1
             /\ ChildSends(lg, p, "child-shown", w) = {}
             /\ \A i \in is :
                  /\ AllBefore(lg, "before-hide", i)
                  /\ SendCount(lg, w, "before-hide") = 1 =>
                       \E x \in 1..(i - 1) : lg[x].k = "clear" /\ lg[x].w = w
                  /\ lg[i].cf = (flags[w] \ (IF Showable(w) THEN {"IsVisible"} ELSE {}))
                                  \cup {"IsHidden"}
    /\ "IsHidden" \in flags[w] =>
         LET lg == Call(St, "show", w, NULL, NULL).log
             is == ChildSends(lg, p, "child-shown", w)
         IN  /\ Cardinality(is) = 1
             /\ ChildSends(lg, p, "child-hidden", w) = {}
             /\ \A i \in is :
                  /\ AllBefore(lg, "after-show", i)
                  /\ SendCount(lg, w, "after-show") = 1 =>
                       \E x \in 1..(i - 1) : lg[x].k = "handler" /\ lg[x].w = w
                  /\ lg[i].cf = (flags[w] \ {"IsHidden"})
                                  \cup (IF Showable(w) THEN {"IsVisible"} ELSE {})

\* Reachable: an attached visible child with a layout and a visible child of
\* its own is hidden: before-hide runs through both before the parent is
\* told, and the parent is told of a child that is Hidden and not Visible.
C16_Witness ==
  \E u, a \in Widgets :
    /\ Live(u) /\ Live(a)
    /\ parent[u] # NULL /\ parent[a] = u
    /\ flags[u] = {"IsAttached", "IsVisible"}
    /\ flags[a] = {"IsAttached", "IsVisible"}
    /\ LET lg == Call(St, "hide", u, NULL, NULL).log IN
         /\ SendCount(lg, a, "before-hide") = 1
         /\ \E i \in ChildSends(lg, parent[u], "child-hidden", u) :
              lg[i].cf = {"IsAttached", "IsHidden"}


\* ---------------------------------------------- claims on moving a handle

EffectiveDelta(index, position) ==
  LET delta == position - OffsetOf(handles[index + 1].left)
      sz == pinHints(sizers)
  IN  IF delta > 0 THEN growDelta(sz, index, Whole(delta))
      ELSE shrinkDelta(sz, index, Whole(0 - delta))

\* C19 (as stated): a move whose clamped delta is zero changes no sizer's
\* size or sizeHint and posts no update-request.
C19_ZeroDeltaNoOp ==
  \A index \in 0..NS, position \in Widths :
    (IsMove(index, position) /\ EffectiveDelta(index, position) = Zero) =>
      LET L == setHandlePosition(SL, index, position) IN
        /\ \A i \in DOMAIN sizers :
             L.sizers[i].size = sizers[i].size /\ L.sizers[i].sizeHint = sizers[i].sizeHint
        /\ ~L.posted

\* C19 (amended): a move whose clamped delta is zero changes no sizer's size,
\* minSize or maxSize; it sets the sizeHint of every sizer with a positive
\* size to that size and leaves the other hints alone; and it posts an
\* update-request.
C19_ZeroDeltaPinsAndPosts ==
  \A index \in 0..NS, position \in Widths :
    (IsMove(index, position) /\ EffectiveDelta(index, position) = Zero) =>
      LET L == setHandlePosition(SL, index, position) IN
        /\ \A i \in DOMAIN sizers :
             /\ L.sizers[i].size = sizers[i].size
             /\ L.sizers[i].minSize = sizers[i].minSize
             /\ L.sizers[i].maxSize = sizers[i].maxSize
             /\ L.sizers[i].sizeHint =
                  (IF Less(Zero, sizers[i].size) THEN sizers[i].size ELSE sizers[i].sizeHint)
        /\ L.posted

\* Reachable: a shown handle is asked to move, the sizers on one side of
\* it have no room left so the clamped delta is zero, and some sizer has a
\* positive size that differs from its hint, which the call pins.
C19_Witness ==
  \E index \in 0..(NS - 1), position \in Widths :
    /\ IsMove(index, position)
    /\ EffectiveDelta(index, position) = Zero
    /\ \E i \in DOMAIN sizers :
         Less(Zero, sizers[i].size) /\ sizers[i].sizeHint # sizers[i].size
    /\ setHandlePosition(SL, index, position).sizers # sizers
    /\ setHandlePosition(SL, index, position).posted


\* ------------------------------------------------ the clamp of a move
\* Two sizers with the limits 10 and 100, after a layout pass (the hint of
\* each is its size), are moved at their boundaries.
ClampSizes == {10 * i : i \in 1..10}
ClampDeltas == {10, 40, 1000}

ClampSizer(size) ==
  [NewSizer EXCEPT !.minSize = Whole(10), !.maxSize = Whole(100),
                   !.size = Whole(size), !.sizeHint = Whole(size)]

InitClamp ==
  /\ flags = [w \in Widgets |-> {}]
  /\ parent = [w \in Widgets |-> NULL]
  /\ layout = [w \in Widgets |-> NULL]
  /\ node = [w \in Widgets |-> TRUE]
  /\ dom = [w \in Widgets |-> NULL]
  /\ lparent = [l \in Layouts |-> NULL]
  /\ lwidgets = [l \in Layouts |-> <<>>]
  /\ ldisposed = [l \in Layouts |-> FALSE]
  /\ err = NoErr
  /\ \E a, b \in ClampSizes : sizers = <<ClampSizer(a), ClampSizer(b)>>
  /\ handles = <<>>
  /\ fixed = 0
  /\ dirty = FALSE
  /\ ckind = <<>>
  /\ chidden = <<>>
  /\ pvisible = TRUE
  /\ calls = 0
  /\ IdlePanel

\* Private.growSizer(sizers, index, delta) (part_000 620-621)
GrowSizer(index, delta) ==
  /\ sizers' = growSizer(sizers, index, Whole(delta))
  /\ UNCHANGED <<wvars, dvars, handles, fixed, dirty, ckind, chidden, pvisible, calls>>

\* Private.shrinkSizer(sizers, index, delta) (part_000 622-623)
ShrinkSizer(index, delta) ==
  /\ sizers' = shrinkSizer(sizers, index, Whole(delta))
  /\ UNCHANGED <<wvars, dvars, handles, fixed, dirty, ckind, chidden, pvisible, calls>>

NextClamp ==
  \/ \E index \in 0..1, delta \in ClampDeltas : GrowSizer(index, delta)
  \/ \E index \in 0..1, delta \in ClampDeltas : ShrinkSizer(index, delta)

SpecClamp == InitClamp /\ [][NextClamp]_vars

\* The sizes are those of the example: 50 and 50.
ClampExample == sizers[1].size = Whole(50) /\ sizers[2].size = Whole(50)

\* The sum of the hints of the sizers.
TotalHint(sz) == SumSeq([i \in DOMAIN sz |-> sz[i].sizeHint])

\* C20 (as stated): with limits [10, 100] and sizes [50, 50], a move at
\* boundary 0 by 1000 puts sizer 0 at its maximum 100 and sizer 1 at its
\* minimum 10, the total being 110.
C20_ClampToMax ==
  ClampExample =>
    LET r == growSizer(sizers, 0, Whole(1000)) IN
      /\ r[1].sizeHint = Whole(100)
      /\ r[2].sizeHint = Whole(10)
      /\ TotalHint(r) = Whole(110)

\* C20 (amended): a move at boundary 0 by 1000 is clamped to the smaller of
\* what sizer 0 can grow and what sizer 1 can shrink; it leaves the sizes
\* alone and sets the hints to the sizes moved by that much, so the hints
\* add up to what the sizes add up to.  With limits [10, 100] and sizes
\* [50, 50] the clamp is 40: sizer 0 is asked to be 90, below its maximum,
\* sizer 1 its minimum 10, and the total is 100 as before.
C20_ClampToSmallerLimit ==
  LET r == growSizer(sizers, 0, Whole(1000))
      d == MathMin(Sub(sizers[1].maxSize, sizers[1].size),
                   Sub(sizers[2].size, sizers[2].minSize))
  IN  /\ \A i \in DOMAIN sizers : r[i].size = sizers[i].size
      /\ Less(Zero, d) => /\ r[1].sizeHint = Add(sizers[1].size, d)
                          /\ r[2].sizeHint = Sub(sizers[2].size, d)
                          /\ TotalHint(r) = TotalSize(sizers)
      /\ ~Less(Zero, d) => r = sizers
      /\ ClampExample => /\ r[1].sizeHint = Whole(90)
                         /\ r[2].sizeHint = Whole(10)
                         /\ TotalHint(r) = Whole(100)
                         /\ TotalSize(r) = Whole(100)

\* Reachable: the sizes of the example, with the hints an earlier move left
\* behind, and the move by 1000 asks for 90 and 10.
C20_Witness ==
  /\ ClampExample
  /\ sizers[1].sizeHint # sizers[1].size
  /\ growSizer(sizers, 0, Whole(1000))[1].sizeHint = Whole(90)
  /\ growSizer(sizers, 0, Whole(1000))[2].sizeHint = Whole(10)


\* ----------------------------------------------------- claims on setSizes
\* Arguments of setSizes: shorter than, as long as and longer than the
\* sizers, with a negative and a positive value.
SizeArgs == UNION {[1..n -> SizeChoices] : n \in 0..(NS + 1)}

\* C21: after setSizes(s), with no update pass run, sizes()[i] is
\* max(0, s[i]) for every i below min(number of sizers, length of s); the
\* sizers past the end of s keep their size and sizeHint; values of s past
\* the last sizer are ignored; an update-request is posted, and none is run
\* (handles and dirty flag are as before), when the layout has a parent, and
\* none is posted when it has none.
C21_SetSizes ==
  /\ \A s \in SizeArgs :
       LET L == setSizes(SL, s)
           n == IF Len(s) < Len(sizers) THEN Len(s) ELSE Len(sizers)
       IN  /\ Len(sizesOf(L)) = Len(sizers)
           /\ \A i \in 1..n : sizesOf(L)[i] = MathMax(Zero, Whole(s[i]))
           /\ \A i \in (n + 1)..Len(sizers) :
                /\ L.sizers[i].size = sizers[i].size
                /\ L.sizers[i].sizeHint = sizers[i].sizeHint
           /\ L.posted
           /\ L.handles = handles /\ L.dirty = dirty /\ L.fixed = fixed
  /\ \A s \in SizeArgs :
       LET L == setSizes(FreshLayout, s) IN sizesOf(L) = <<>> /\ ~L.posted

\* Reachable: after a layout pass gave every sizer a positive size that is
\* not its hint, setSizes with one negative value zeroes the first size,
\* leaves the other sizers alone and posts the update.
C21_Witness ==
  /\ \A i \in DOMAIN sizers :
       Less(Zero, sizers[i].size) /\ sizers[i].sizeHint # sizers[i].size
  /\ LET L == setSizes(SL, <<0 - 1>>) IN
       /\ sizesOf(L) = <<Zero, sizers[2].size, sizers[3].size>>
       /\ L.sizers[2] = sizers[2]
       /\ L.posted


\* ------------------------------------------------------------ split panel
\* The most cursor overrides and the most layout operations a behaviour of
\* the panel holds or makes.
MaxOverrides == 2
MaxOps == 4

\* The six event types the panel listens for on the document while a handle
\* is pressed (part_000 325-331, 400-406).
DocEvents == {"mouseup", "mousemove", "keydown", "keyup", "keypress", "contextmenu"}

\* event.keyCode of the Escape key (part_000 300) and of some other key.
Escape == 27
OtherKey == 65

\* event.target: a node outside the panel, a node of the panel that is in no
\* handle, or the 0-based index of the handle that contains it.
Outside == 0 - 2
NoHandle == 0 - 1

\* The panel and its layout as one record.  prevented and stopped are what
\* the handlers did to the event being dispatched; perr is an error thrown
\* by a handler.
PN ==
  [pressData |-> pressData, cursors |-> cursors,
   nodeListeners |-> nodeListeners, docListeners |-> docListeners,
   widgets |-> pwidgets, lay |-> SL, fitPosted |-> FALSE, disposed |-> pdisposed,
   handled |-> FALSE, prevented |-> FALSE, stopped |-> FALSE, perr |-> NoErr]

\* event.preventDefault(); event.stopPropagation();
stopEvent(P) == [P EXCEPT !.prevented = TRUE, !.stopped = TRUE]

\* overrideCursor(cursor): a new override, identified by the least number no
\* live override has; disposing it restores the cursor.
overrideCursor(P) == CHOOSE i \in 1..(Cardinality(P.cursors) + 1) : i \notin P.cursors

\* A release that keeps the document listeners.
releaseMouseKeepsListeners(P) ==
  IF P.pressData = <<>> THEN P
  ELSE [P EXCEPT !.cursors = @ \ {P.pressData[1].override},
                 !.pressData = <<>>]

\* SplitPanel._releaseMouse (part_000 390-407)
releaseMouse(P) ==
  IF P.pressData = <<>> THEN P
  ELSE [P EXCEPT !.cursors = @ \ {P.pressData[1].override},
                 !.pressData = <<>>,
                 !.docListeners = @ \ DocEvents]

\* SplitPanel._evtKeyDown (part_000 294-301)
evtKeyDown(P, e) ==
  LET s == stopEvent(P) IN IF e.keyCode = Escape THEN releaseMouse(s) ELSE s

\* findIndex(layout.handles, handle => handle.contains(target)) (part_000 315)
handleIndex(P, e) ==
  IF e.target >= 0 /\ e.target < Len(P.lay.handles) THEN e.target ELSE 0 - 1

\* SplitPanel._evtMouseDown (part_000 306-346); the panel's left edge is at
\* client position 0.
evtMouseDown(P, e) ==
  IF e.button # 0 THEN P
  ELSE LET index == handleIndex(P, e) IN
       IF index = 0 - 1 THEN P
       ELSE LET s == stopEvent(P)
                delta == e.clientX - OffsetOf(P.lay.handles[index + 1].left)
                override == overrideCursor(s)
            IN  [s EXCEPT !.docListeners = @ \cup DocEvents,
                          !.cursors = @ \cup {override},
                          !.pressData = <<[index |-> index, delta |-> delta,
                                           override |-> override]>>]

\* SplitPanel._evtMouseMove (part_000 351-368); reading this._pressData.delta
\* of a null _pressData throws a TypeError.
evtMouseMove(P, e) ==
  LET s == stopEvent(P) IN
  IF s.pressData = <<>> THEN [s EXCEPT !.perr = "TypeError"]
  ELSE LET pos == e.clientX - s.pressData[1].delta
       IN  [s EXCEPT !.lay = setHandlePosition(@, s.pressData[1].index, pos)]

\* SplitPanel._evtMouseUp (part_000 373-385)
evtMouseUp(P, e) ==
  IF e.button # 0 THEN P ELSE releaseMouse(stopEvent(P))

\* An event handling that lets key releases and the context menu through.
handleEventIgnoresKeys(P, e) ==
  CASE e.type = "mousedown" -> evtMouseDown(P, e)
    [] e.type = "mousemove" -> evtMouseMove(P, e)
    [] e.type = "mouseup" -> evtMouseUp(P, e)
    [] e.type = "keydown" -> evtKeyDown(P, e)
    [] OTHER -> P

\* SplitPanel.handleEvent (part_000 236-258)
handleEvent(P, e) ==
  CASE e.type = "mousedown" -> evtMouseDown(P, e)
    [] e.type = "mousemove" -> evtMouseMove(P, e)
    [] e.type = "mouseup" -> evtMouseUp(P, e)
    [] e.type = "keydown" -> evtKeyDown(P, e)
    [] e.type \in {"keyup", "keypress", "contextmenu"} -> stopEvent(P)
    [] OTHER -> P

\* The browser hands an event to the panel when the panel listens for its
\* type: on the document (capturing, part_000 326-331) whatever the target,
\* on its own node (part_000 264) when the target is inside the panel.
dispatchEvent(P, e) ==
  LET listening == \/ e.type \in P.docListeners
                   \/ e.type \in P.nodeListeners /\ e.target # Outside
  IN  IF listening THEN handleEvent([P EXCEPT !.handled = TRUE], e) ELSE P

\* SplitPanel.onAfterAttach (part_000 263-265)
onAfterAttach(P) == [P EXCEPT !.nodeListeners = @ \cup {"mousedown"}]

\* SplitPanel.onBeforeDetach (part_000 270-273)
onBeforeDetach(P) == releaseMouse([P EXCEPT !.nodeListeners = @ \ {"mousedown"}])

\* A child-removed handler that leaves the drag alone.
onChildRemovedKeepsDrag(P) == P

\* SplitPanel.onChildAdded, onChildRemoved (part_000 278-289)
onChildAdded(P) == releaseMouse(P)
onChildRemoved(P) == releaseMouse(P)

\* A disposal that goes to the widget's dispose without releasing the mouse.
panelDisposeKeepsDrag(P, attached) ==
  IF P.disposed THEN P
  ELSE LET s == [P EXCEPT !.disposed = TRUE]
       IN  IF attached THEN [s EXCEPT !.nodeListeners = @ \ {"mousedown"}] ELSE s

\* SplitPanel.dispose (part_000 151-154) of a panel without parent:
\* _releaseMouse, then Widget.dispose (widget.ts 103-117) sets the flag and
\* detaches the panel if it is attached, which sends it before-detach.  The
\* disposal of the layout and its children that follows does not touch the
\* press data, the overrides or the listeners; the sequences of children,
\* sizers and handles are left as they were.
panelDispose(P, attached) ==
  LET r == releaseMouse(P)
  IN  IF r.disposed THEN r
      ELSE LET s == [r EXCEPT !.disposed = TRUE]
           IN  IF attached THEN onBeforeDetach(s) ELSE s


\* Vector.insert, Vector.remove and move (0-based indices).
InsertAt(s, i, x) == SubSeq(s, 1, i) \o <<x>> \o SubSeq(s, i + 1, Len(s))
RemoveAt(s, i) == SubSeq(s, 1, i) \o SubSeq(s, i + 2, Len(s))
MoveTo(s, i, j) == InsertAt(RemoveAt(s, i), j, s[i + 1])

\* The 0-based index of x in s, -1 if it is not there.
IndexOf(s, x) ==
  IF \E i \in DOMAIN s : s[i] = x THEN (CHOOSE i \in DOMAIN s : s[i] = x) - 1 ELSE 0 - 1

\* Private.createHandle (part_000 1071-1075): a new handle element, not yet
\* laid out; tag is its identity: the child it was created for.
createHandle(widget) == [hidden |-> FALSE, left |-> Zero, tag |-> widget]

\* this.parent.fit() (widget.ts 402-404): a fit-request is posted to the panel.
postFit(P) == [P EXCEPT !.fitPosted = TRUE]

\* An attach that puts the new handle at the end of the handles.
splitAttachWidgetAppendsHandle(P, index, widget) ==
  LET sizer == [createSizer(averageSize(P.lay.sizers)) EXCEPT !.tag = widget]
  IN  postFit([P EXCEPT !.lay.sizers = InsertAt(@, index, sizer),
                        !.lay.handles = Append(@, createHandle(widget))])

\* SplitLayout.attachWidget (part_000 640-660)
splitAttachWidget(P, index, widget) ==
  LET sizer == [createSizer(averageSize(P.lay.sizers)) EXCEPT !.tag = widget]
  IN  postFit([P EXCEPT !.lay.sizers = InsertAt(@, index, sizer),
                        !.lay.handles = InsertAt(@, index, createHandle(widget))])

\* SplitLayout.moveWidget (part_000 674-681)
splitMoveWidget(P, fromIndex, toIndex, widget) ==
  postFit([P EXCEPT !.lay.sizers = MoveTo(@, fromIndex, toIndex),
                    !.lay.handles = MoveTo(@, fromIndex, toIndex)])

\* SplitLayout.detachWidget (part_000 693-713)
splitDetachWidget(P, index, widget) ==
  postFit([P EXCEPT !.lay.sizers = RemoveAt(@, index),
                    !.lay.handles = RemoveAt(@, index)])

\* An index brought into lo..hi.
Clamp(i, lo, hi) == IF i < lo THEN lo ELSE IF i > hi THEN hi ELSE i

\* The panel layout's insertion of a child at an index.  A widget that is
\* not a child yet is given the panel as parent, which sends child-added to
\* the panel (widget.ts 237-253), then put into the ordered container and
\* attached; a widget that is a child already is moved.
panelInsertWidget(P, index, widget) ==
  LET i == IndexOf(P.widgets, widget)
      n == Len(P.widgets)
  IN  IF i = 0 - 1
        THEN LET j == Clamp(index, 0, n)
                 s == onChildAdded(P)
             IN  splitAttachWidget([s EXCEPT !.widgets = InsertAt(@, j, widget)], j, widget)
        ELSE LET j == Clamp(index, 0, n - 1)
             IN  IF i = j THEN P
                 ELSE splitMoveWidget([P EXCEPT !.widgets = MoveTo(@, i, j)], i, j, widget)

\* A child's parent is set to null (widget.ts 237-253): child-removed is sent
\* to the panel; its layout is told first and removes the child from the
\* ordered container and detaches it, then the panel's own handler runs.
panelRemoveWidget(P, widget) ==
  LET i == IndexOf(P.widgets, widget)
  IN  IF i = 0 - 1 THEN P
      ELSE onChildRemoved(splitDetachWidget([P EXCEPT !.widgets = RemoveAt(@, i)], i, widget))

\* The size limits and the stretch of child c.
KindOf(c) ==
  CASE c % 3 = 1 -> [minSize |-> Zero, maxSize |-> Inf, stretch |-> 1]
    [] c % 3 = 2 -> [minSize |-> Whole(1), maxSize |-> Whole(2), stretch |-> 2]
    [] OTHER -> [minSize |-> Whole(1), maxSize |-> Whole(3), stretch |-> 0]

Children == 1..NS

InitPanel ==
  /\ flags = [w \in Widgets |-> {}]
  /\ parent = [w \in Widgets |-> NULL]
  /\ layout = [w \in Widgets |-> NULL]
  /\ node = [w \in Widgets |-> TRUE]
  /\ dom = [w \in Widgets |-> NULL]
  /\ lparent = [l \in Layouts |-> NULL]
  /\ lwidgets = [l \in Layouts |-> <<>>]
  /\ ldisposed = [l \in Layouts |-> FALSE]
  /\ err = NoErr
  /\ sizers = <<>>
  /\ handles = <<>>
  /\ fixed = 0
  /\ dirty = FALSE
  /\ ckind = <<>>
  /\ chidden = <<>>
  /\ pvisible = FALSE
  /\ calls = 0
  /\ IdlePanel

\* The panel is a root widget that is never hidden: it is attached exactly
\* when it is visible (widget.ts 534-546).
PanelAttached == pvisible

\* The state after an operation on the panel left it as P.
CommitPanel(P) ==
  /\ P.perr = NoErr
  /\ pdisposed' = P.disposed
  /\ pwidgets' = P.widgets
  /\ pressData' = P.pressData
  /\ cursors' = P.cursors
  /\ nodeListeners' = P.nodeListeners
  /\ docListeners' = P.docListeners
  /\ sizers' = P.lay.sizers
  /\ handles' = P.lay.handles
  /\ fixed' = P.lay.fixed
  /\ dirty' = P.lay.dirty
  /\ ckind' = [i \in DOMAIN P.widgets |-> KindOf(P.widgets[i])]
  /\ chidden' = [i \in DOMAIN P.widgets |-> FALSE]
  /\ UNCHANGED wvars

\* Widget.attach(panel, host): after-attach reaches the panel
\* (part_000 263-265); the fit its layout asks for is posted (740-743).
PanelAttach ==
  /\ ~pdisposed
  /\ ~PanelAttached
  /\ pvisible' = TRUE
  /\ CommitPanel(onAfterAttach(PN))
  /\ UNCHANGED calls

\* Widget.detach(panel): before-detach reaches the panel (part_000 270-273).
PanelDetach ==
  /\ PanelAttached
  /\ pvisible' = FALSE
  /\ CommitPanel(onBeforeDetach(PN))
  /\ UNCHANGED calls

\* panel.dispose()
PanelDispose ==
  /\ ~pdisposed
  /\ pvisible' = FALSE
  /\ CommitPanel(panelDispose(PN, PanelAttached))
  /\ UNCHANGED calls

InsertChild(c, index) ==
  /\ ~pdisposed
  /\ calls < MaxOps
  /\ calls' = calls + 1
  /\ CommitPanel(panelInsertWidget(PN, index, c))
  /\ UNCHANGED pvisible

RemoveChild(c) ==
  /\ ~pdisposed
  /\ calls < MaxOps
  /\ calls' = calls + 1
  /\ IndexOf(pwidgets, c) # 0 - 1
  /\ CommitPanel(panelRemoveWidget(PN, c))
  /\ UNCHANGED pvisible

\* A posted fit-request is delivered to the attached panel (part_000 785-789).
PanelFit(width) ==
  /\ calls < MaxOps
  /\ calls' = calls + 1
  /\ PanelAttached
  /\ CommitPanel([PN EXCEPT !.lay = fit(@, chidden, ckind, pvisible, width)])
  /\ UNCHANGED pvisible

\* A posted update-request or a resize is delivered (part_000 767-780).
PanelUpdate(width) ==
  /\ calls < MaxOps
  /\ calls' = calls + 1
  /\ pvisible
  /\ CommitPanel([PN EXCEPT !.lay = update(@, chidden, width)])
  /\ UNCHANGED pvisible

\* A DOM event: its type, button, key, target and client position.
DomEvent(type, button, keyCode, target, clientX) ==
  [type |-> type, button |-> button, keyCode |-> keyCode, target |-> target,
   clientX |-> clientX]

\* A mouse button goes down outside the panel, inside it off the handles,
\* or on a handle that is shown, d pixels from the handle's left edge.
MouseDown(button, target, d) ==
  /\ Cardinality(cursors) < MaxOverrides
  /\ target # Outside => PanelAttached
  /\ target >= 0 => target < Len(handles) /\ ~handles[target + 1].hidden
  /\ LET x == IF target >= 0 THEN OffsetOf(handles[target + 1].left) + d ELSE 0
     IN  CommitPanel(dispatchEvent(PN, DomEvent("mousedown", button, 0, target, x)))
  /\ UNCHANGED <<pvisible, calls>>

MouseMove(clientX) ==
  /\ CommitPanel(dispatchEvent(PN, DomEvent("mousemove", 0, 0, Outside, clientX)))
  /\ UNCHANGED <<pvisible, calls>>

MouseUp(button) ==
  /\ CommitPanel(dispatchEvent(PN, DomEvent("mouseup", button, 0, Outside, 0)))
  /\ UNCHANGED <<pvisible, calls>>

KeyDown(keyCode) ==
  /\ CommitPanel(dispatchEvent(PN, DomEvent("keydown", 0, keyCode, Outside, 0)))
  /\ UNCHANGED <<pvisible, calls>>

\* Another event on the page: one of the types the panel stops during a
\* drag, the window losing focus, or a wheel turn.
OtherEvent(type) ==
  /\ CommitPanel(dispatchEvent(PN, DomEvent(type, 0, 0, Outside, 0)))
  /\ UNCHANGED <<pvisible, calls>>

Buttons == {0, 1, 2}
PanelWidths == {MaxWidth - 2, MaxWidth}
OtherTypes == {"keyup", "keypress", "contextmenu", "blur", "wheel"}

NextPanel ==
  \/ PanelAttach
  \/ PanelDetach
  \/ PanelDispose
  \/ \E c \in Children, index \in 0..NS : InsertChild(c, index)
  \/ \E c \in Children : RemoveChild(c)
  \/ \E width \in PanelWidths : PanelFit(width)
  \/ \E width \in PanelWidths : PanelUpdate(width)
  \/ \E button \in Buttons, target \in {Outside, NoHandle} \cup (0..(NS - 1)),
        d \in 0..(Spacing - 1) : MouseDown(button, target, d)
  \/ \E clientX \in Widths : MouseMove(clientX)
  \/ \E button \in Buttons : MouseUp(button)
  \/ \E keyCode \in {Escape, OtherKey} : KeyDown(keyCode)
  \/ \E type \in OtherTypes : OtherEvent(type)

SpecPanel == InitPanel /\ [][NextPanel]_vars


\* ------------------------------------------------------ claims on a drag
\* Press data is recorded: a drag is active.
Dragging == pressData # <<>>

ReleaseEvent == DomEvent("mouseup", 0, 0, Outside, 0)
EscapeEvent == DomEvent("keydown", 0, Escape, Outside, 0)
BlurEvent == DomEvent("blur", 0, 0, Outside, 0)

\* After event e the press data is cleared and the override of the press
\* is disposed.
EndsDrag(e) ==
  LET P == dispatchEvent(PN, e) IN
    P.pressData = <<>> /\ pressData[1].override \notin P.cursors

\* C22 (as stated): while a drag is active, each of a primary-button release,
\* an Escape key press and a blur clears the press data and disposes the
\* cursor override.
C22_ReleaseEscapeBlurEndDrag ==
  Dragging => EndsDrag(ReleaseEvent) /\ EndsDrag(EscapeEvent) /\ EndsDrag(BlurEvent)

\* What the code keeps of C22: a primary-button release and an Escape key
\* press end the drag.
C22_ReleaseAndEscapeEndDrag ==
  Dragging => EndsDrag(ReleaseEvent) /\ EndsDrag(EscapeEvent)

\* What the code does on a blur: nothing listens for it, the drag goes on.
C22_BlurKeepsDrag ==
  Dragging => dispatchEvent(PN, BlurEvent) = PN


\* The event was handed to the panel, which prevented its default action
\* and stopped its propagation.
Suppressed(e) ==
  LET P == dispatchEvent(PN, e) IN P.handled /\ P.prevented /\ P.stopped /\ P.perr = NoErr

\* The events of a drag other than mouse releases.
DragInputs ==
  {DomEvent("mousemove", 0, 0, Outside, x) : x \in Widths}
  \cup {DomEvent("keydown", 0, k, Outside, 0) : k \in {Escape, OtherKey}}
  \cup {DomEvent(type, 0, 0, Outside, 0) : type \in {"keyup", "keypress", "contextmenu"}}

\* C23 (as stated): for the whole of a drag, every mouse move, key down, key
\* up, key press, context menu and release of any mouse button has its
\* default action prevented and its propagation stopped.
C23_DragSuppressesAll ==
  Dragging =>
    /\ \A e \in DragInputs : Suppressed(e)
    /\ \A b \in Buttons : Suppressed(DomEvent("mouseup", b, 0, Outside, 0))

\* C23 (amended): for the whole of a drag, every mouse move, key down, key
\* up, key press, context menu and release of the primary button has its
\* default action prevented and its propagation stopped; the release of
\* another button is handed to the panel, which leaves it and itself alone.
C23_DragSuppressesButOtherButtons ==
  Dragging =>
    /\ \A e \in DragInputs : Suppressed(e)
    /\ Suppressed(ReleaseEvent)
    /\ \A b \in Buttons \ {0} :
         dispatchEvent(PN, DomEvent("mouseup", b, 0, Outside, 0)) = [PN EXCEPT !.handled = TRUE]

\* Reachable: a drag is active and a mouse move, which moves the pressed
\* handle's neighbours, is suppressed.
C23_Witness ==
  /\ Dragging
  /\ \E x \in Widths :
       LET P == dispatchEvent(PN, DomEvent("mousemove", 0, 0, Outside, x)) IN
         P.prevented /\ P.stopped /\ P.lay.sizers # sizers /\ P.lay.posted


\* The primary mousedown events that can land on a handle: the handle is
\* shown, the position is within it.
HandlePresses ==
  {DomEvent("mousedown", 0, 0, i - 1, OffsetOf(handles[i].left) + d) :
     i \in {j \in DOMAIN handles : ~handles[j].hidden}, d \in 0..(Spacing - 1)}

\* C24 (as stated): a primary-button mousedown on a handle that arrives while
\* press data is recorded does not replace the recorded index, offset and
\* cursor override.
C24_NoPressWhileDragging ==
  (Dragging /\ PanelAttached) =>
    \A e \in HandlePresses : dispatchEvent(PN, e).pressData = pressData

\* What the code does instead: the second press records its own index and a
\* new cursor override, and the override of the first press stays acquired.
C24_SecondPressReplaces ==
  (Dragging /\ PanelAttached) =>
    \A e \in HandlePresses :
      LET P == dispatchEvent(PN, e) IN
        /\ P.pressData # <<>>
        /\ P.pressData[1].index = e.target
        /\ P.pressData[1].override # pressData[1].override
        /\ pressData[1].override \in P.cursors
        /\ P.cursors = cursors \cup {P.pressData[1].override}


\* --------------------------------------------------- claims on the passes
\* C25: after a fit pass the handle of every hidden child is hidden, the
\* handle of the last child that is not hidden is hidden, every other handle
\* is shown; so the number of shown handles is max(0, nVisible - 1) and the
\* fixed space is the spacing times that number.
C25_FitHandles ==
  \A visible \in BOOLEAN, width \in {0, MaxWidth} :
    LET L == fit(SL, chidden, ckind, visible, width)
        shown == {i \in DOMAIN L.handles : ~L.handles[i].hidden}
        nVisible == Cardinality({i \in DOMAIN chidden : ~chidden[i]})
        last == {i \in DOMAIN chidden : ~chidden[i] /\ \A j \in DOMAIN chidden : j > i => chidden[j]}
    IN  /\ \A i \in DOMAIN L.handles :
             L.handles[i].hidden <=> (chidden[i] \/ i \in last)
        /\ Cardinality(shown) = (IF nVisible > 1 THEN nVisible - 1 ELSE 0)
        /\ L.fixed = Spacing * Cardinality(shown)

\* Reachable: the middle child is hidden, the outer two are not; a fit pass
\* shows the first handle only, and the fixed space is one spacing.
C25_Witness ==
  /\ NS >= 3
  /\ ~chidden[1] /\ chidden[2] /\ ~chidden[3]
  /\ handles[2].hidden = FALSE
  /\ LET L == fit(SL, chidden, ckind, pvisible, MaxWidth) IN
       /\ ~L.handles[1].hidden /\ L.handles[2].hidden /\ L.handles[3].hidden
       /\ L.fixed = Spacing


\* The 1-based position of the nearest child before i that is not hidden,
\* 0 if there is none.
PrevShown(hid, i) ==
  IF \E j \in 1..(i - 1) : ~hid[j]
    THEN CHOOSE j \in 1..(i - 1) : ~hid[j] /\ \A k \in (j + 1)..(i - 1) : hid[k]
    ELSE 0

\* C26: an update pass places the children that are not hidden in index
\* order: the first at the origin, each next one at the previous one's
\* offset plus its size plus the spacing, each one's handle at its offset
\* plus its size, each as high as the panel; a hidden child gets no geometry
\* and its handle stays where it was.
C26_UpdatePlacement ==
  \A width \in {0, MaxWidth \div 2, MaxWidth} :
    LET L == update(SL, chidden, width) IN
      \A i \in DOMAIN L.sizers :
        IF chidden[i]
          THEN ~L.geom[i].placed /\ L.handles[i].left = handles[i].left
          ELSE LET j == PrevShown(chidden, i)
                   g == L.geom[i]
               IN  /\ g.placed
                   /\ g.left = (IF j = 0 THEN Zero
                                ELSE Add(Add(L.geom[j].left, L.sizers[j].size), Whole(Spacing)))
                   /\ g.top = Zero
                   /\ g.width = L.sizers[i].size
                   /\ g.height = Whole(PanelHeight)
                   /\ L.handles[i].left = Add(g.left, g.width)

\* Reachable: the middle child is hidden and was fitted, its handle is not
\* at 0; an update pass places the third child one spacing after the first
\* child's end and leaves the middle child alone.
C26_Witness ==
  /\ NS >= 3
  /\ ~chidden[1] /\ chidden[2] /\ ~chidden[3]
  /\ sizers[2].maxSize = Zero
  /\ LET L == update(SL, chidden, MaxWidth) IN
       /\ Less(Zero, L.sizers[1].size) /\ Less(Zero, L.sizers[3].size)
       /\ L.geom[3].left = Add(L.sizers[1].size, Whole(Spacing))
       /\ ~L.geom[2].placed


\* ------------------------------------------------- claims on the move
\* The sum of f over the 1-based positions lo..hi.
SumOver(f, lo, hi) == SumSeq([j \in 1..(hi - lo + 1) |-> f[lo + j - 1]])

\* The deltas of a move.
Deltas == {1, MaxWidth \div 2, MaxWidth}

\* Every hint is the sizer's size once the hints are pinned.
HintsPinned == \A i \in DOMAIN sizers : Less(Zero, sizers[i].size) \/ sizers[i].sizeHint = sizers[i].size

NearestFirst(before, after, index, low, high) ==
  \A j \in DOMAIN before :
    after[j].sizeHint # before[j].sizeHint =>
      /\ j <= index + 1 => \A k \in (j + 1)..(index + 1) : after[k].sizeHint = before[k][low]
      /\ j >= index + 2 => \A k \in (index + 2)..(j - 1) : after[k].sizeHint = before[k][high]

\* C28: in a move the sizer nearest the boundary on each side absorbs first:
\* the grow or shrink changes the hint of a farther sizer only if every
\* nearer sizer of the same side has been driven to its bound, maxSize on
\* the growing side and minSize on the shrinking side.
C28_NearestAbsorbsFirst ==
  \A index \in 0..(NS - 2), delta \in Deltas :
    \A sz \in {pinHints(sizers)} :
    \A g \in {growSizer(sz, index, Whole(delta))} :
    \A s \in {shrinkSizer(sz, index, Whole(delta))} :
      /\ NearestFirst(sz, g, index, "maxSize", "minSize")
      /\ NearestFirst(sz, s, index, "minSize", "maxSize")

\* Reachable: a grow spills over from the sizer at the boundary, driven to
\* its maxSize, to the one before it, and a shrink spills over from the sizer
\* at the boundary, driven to its minSize, to the one before it.
C28_Witness ==
  LET sz == pinHints(sizers)
  IN  /\ \E d \in Deltas :
           LET g == growSizer(sz, NS - 2, Whole(d))
           IN  /\ g[NS - 1].sizeHint = sz[NS - 1].maxSize
               /\ g[NS - 1].sizeHint # sz[NS - 1].sizeHint
               /\ g[NS - 2].sizeHint # sz[NS - 2].sizeHint
      /\ \E d \in Deltas :
           LET s == shrinkSizer(sz, NS - 2, Whole(d))
           IN  /\ s[NS - 1].sizeHint = sz[NS - 1].minSize
               /\ s[NS - 1].sizeHint # sz[NS - 1].sizeHint
               /\ s[NS - 2].sizeHint # sz[NS - 2].sizeHint


\* ------------------------------------------- claims on the dirty flag
\* The 1-based positions of `what` in what a pass sent.
Places(sent, what) == {i \in DOMAIN sent : sent[i] = what}

\* C29: a fit pass sets the dirty flag, then sends fit-request to the
\* panel's parent when there is one, and after that sends update-request to
\* the panel exactly when no update pass of the layout ran in between, that
\* is, when the dirty flag is still set; every update pass clears the flag,
\* so at most one update pass runs per fit pass.
C29_FitDirtyProtocol ==
  /\ \A width \in {MaxWidth}, ancestor \in Ancestors :
     \A L \in {fitUnder(SL, chidden, ckind, pvisible, width, ancestor)} :
       LET s == L.sent
           req == Places(s, "update-request")
           upd == Places(s, "update")
           ask == Places(s, "fit-request")
       IN  /\ s[1] = "dirty" /\ Places(s, "dirty") = {1}
           /\ ask = (IF ancestor = "none" THEN {} ELSE {2})
           /\ \A i \in req : \A j \in ask : j < i
           /\ Cardinality(req) <= 1
           /\ (req # {}) <=> ~(\E i \in upd : \A j \in req : i < j)
           /\ (req # {}) <=> ~(ancestor = "resizes" /\ pvisible)
           /\ Cardinality(upd) = (IF pvisible THEN 1 ELSE 0)
           /\ L.dirty = ~pvisible
  /\ \A width \in {MaxWidth}, d \in BOOLEAN :
       ~update([SL EXCEPT !.dirty = d], chidden, width).dirty

\* Reachable: the layout of a visible panel, the flag left set by a fit pass
\* run while the panel was not visible; a fit whose fit-request makes the
\* panel's parent resize the panel runs the update pass once and sends no
\* update-request, and a fit under a parent that does not resize sends one.
C29_Witness ==
  /\ pvisible /\ dirty
  /\ fitUnder(SL, chidden, ckind, pvisible, MaxWidth, "resizes").sent
       = <<"dirty", "fit-request", "update">>
  /\ fitUnder(SL, chidden, ckind, pvisible, MaxWidth, "still").sent
       = <<"dirty", "fit-request", "update-request", "update">>
  /\ ~fitUnder(SL, chidden, ckind, pvisible, MaxWidth, "resizes").dirty


\* ------------------------------------- claims on the parallel sequences
\* The sizers, handles and children of panel P are equally many, and the
\* sizer and the handle at each index are the ones created for the child
\* at that index.
Aligned(P) ==
  /\ Len(P.lay.sizers) = Len(P.widgets)
  /\ Len(P.lay.handles) = Len(P.widgets)
  /\ \A i \in DOMAIN P.widgets :
       P.lay.sizers[i].tag = P.widgets[i] /\ P.lay.handles[i].tag = P.widgets[i]

\* C30: after any sequence of insertions, moves and removals of children,
\* with layout passes and drags in between, the sizers, the handles and the
\* children are equally many and the sizer and handle created for a child
\* are at that child's index; an insertion, a move and a removal each keep it
\* so.
C30_ParallelSequences ==
  /\ Aligned(PN)
  /\ \A c \in Children :
       /\ \A index \in 0..NS : Aligned(panelInsertWidget(PN, index, c))
       /\ Aligned(panelRemoveWidget(PN, c))

\* Reachable: all the children are in the panel, not in the order of their
\* numbers, after at least one operation more than their insertions; the
\* last child can be moved to the front and the first one removed.
C30_Witness ==
  /\ Len(pwidgets) = NS /\ calls > NS
  /\ \E i \in DOMAIN pwidgets : pwidgets[i] # i
  /\ LET c == pwidgets[NS]
         P == panelInsertWidget(PN, 0, c)
     IN  /\ P.widgets[1] = c /\ P.lay.sizers[1].tag = c /\ P.lay.handles[1].tag = c
         /\ P.widgets # pwidgets
  /\ Len(panelRemoveWidget(PN, pwidgets[1]).lay.handles) = NS - 1


\* ------------------------------------------ claims on the drag's resources
\* A mouse move on the page at client position clientX.
MoveEvent(clientX) == DomEvent("mousemove", 0, 0, Outside, clientX)

\* C31: in every reachable state of a split panel the document listeners
\* for mouseup, mousemove, keydown, keyup, keypress and contextmenu are all
\* installed if press data is recorded and none of them is installed if not;
\* a mousemove is handled only while press data exists, so the handler never
\* reads press data that is null.
C31_ListenersIffPressData ==
  /\ Dragging => docListeners = DocEvents
  /\ ~Dragging => docListeners = {}
  /\ \A clientX \in {0, MaxWidth} :
       LET P == dispatchEvent(PN, MoveEvent(clientX))
       IN  (P.handled => Dragging) /\ P.perr = NoErr

\* Reachable: a drag is active with the six listeners installed and a mouse
\* move is handled; the release removes the listeners, after which a mouse
\* move is not handled.
C31_Witness ==
  /\ Dragging /\ docListeners = DocEvents
  /\ dispatchEvent(PN, MoveEvent(MaxWidth)).handled
  /\ LET R == [dispatchEvent(PN, ReleaseEvent) EXCEPT !.handled = FALSE]
     IN  /\ R.pressData = <<>> /\ R.docListeners = {}
         /\ ~dispatchEvent(R, MoveEvent(MaxWidth)).handled


\* ---------------------------------------- claims on the layout's precedence
\* The log of sendMessage(w, m) made by user code or by the message loop.
Deliver(w, m) == Run(Push(St, <<Frame("send", w, m, NULL, NULL, 0)>>)).log

\* The kinds no call sends synchronously: the message loop delivers them.
LoopKinds == {"resize", "update-request", "fit-request"}

\* In log lg every send to a widget with a layout is followed at once by the
\* layout's processing of the message; the widget's own handler for it, if
\* it runs, runs after that; it runs for no kind without an own handler, and
\* for each kind with one unless an error cut the call short.
LayoutFirst(lg, failed) ==
  \A i \in 1..Len(lg) :
    (lg[i].k = "send" /\ layout[lg[i].w] # NULL) =>
      LET j == HandlerOf(lg, i) IN
        /\ i < Len(lg)
        /\ lg[i + 1].k = "layout" /\ lg[i + 1].w = lg[i].w /\ lg[i + 1].m = lg[i].m
        /\ j # 0 => i + 1 < j
        /\ lg[i].m \notin OwnHandler => j = 0
        /\ (lg[i].m \in OwnHandler /\ ~failed) => j # 0

\* C32: for every message kind a widget with a layout processes, the layout
\* is told before the widget's own handler for that kind runs; a kind without
\* an own handler goes to the layout only.
C32_LayoutBeforeHandler ==
  /\ \A call \in LiveCalls :
       \A s \in {Call(St, call.t, call.w, call.c, call.l)} : LayoutFirst(s.log, s.err # NoErr)
  /\ \A w \in {x \in Widgets : Live(x)}, m \in LoopKinds : LayoutFirst(Deliver(w, m), FALSE)

\* The kinds of the events of a log, in order.
KindsOf(lg) == [i \in DOMAIN lg |-> lg[i].k]

\* Reachable: a widget with a layout gets a resize (layout, then handler) and
\* a fit-request (layout only); hiding a child of its layout sends it
\* child-hidden, which goes to the layout only, and closing that child sends
\* it child-removed, which the layout hears before the handler.
C32_Witness ==
  \E w \in Widgets, c \in Widgets :
    /\ Live(w) /\ Live(c) /\ layout[w] # NULL /\ parent[c] = w
    /\ isAttached(St, c) /\ ~isHidden(St, c)
    /\ KindsOf(Deliver(w, "resize")) = <<"send", "layout", "handler">>
    /\ KindsOf(Deliver(w, "fit-request")) = <<"send", "layout">>
    /\ LET lg == Call(St, "hide", c, NULL, NULL).log
       IN  \E i \in DOMAIN lg :
             /\ IsSendOf(lg, i, "child-hidden") /\ lg[i].w = w
             /\ lg[i + 1].k = "layout" /\ HandlerOf(lg, i) = 0
    /\ LET lg == Call(St, "close", c, NULL, NULL).log
       IN  \E i \in DOMAIN lg :
             /\ IsSendOf(lg, i, "child-removed") /\ lg[i].w = w
             /\ lg[i + 1].k = "layout" /\ HandlerOf(lg, i) > i + 1


\* ------------------------------------------------ claims on disposal
\* C33: after the first dispose() of a widget returns, the widget has no
\* parent and is neither attached nor visible.  (Stated as the claim states
\* it; the code does not keep it.)
C33_DisposedIsDetached ==
  \A w \in Widgets :
    Live(w) =>
      LET s == Call(St, "dispose", w, NULL, NULL) IN
        s.err = NoErr =>
          /\ s.parent[w] = NULL
          /\ ~isAttached(s, w)
          /\ ~isVisible(s, w)


\* What holds of the disposal: it leaves the widget without parent, not
\* attached and not visible unless the widget was flagged attached or
\* visible while its node was not in the document.
C33_DetachedUnlessStale ==
  \A w \in Widgets :
    Live(w) =>
      LET s == Call(St, "dispose", w, NULL, NULL)
          stale == (isAttached(St, w) \/ isVisible(St, w)) /\ ~bodyContains(St, w)
      IN  (s.err = NoErr /\ ~stale) =>
            /\ s.parent[w] = NULL
            /\ ~isAttached(s, w)
            /\ ~isVisible(s, w)


\* ------------------------------------------- claims on the hints of a move
\* The sizers with every hint at the sizer's size.
Blank(sz) == [i \in DOMAIN sz |-> [sz[i] EXCEPT !.sizeHint = sz[i].size]]

\* The move from sz to r, which from blank hints gives b, writes hints only,
\* and each hint it writes lies within the sizer's limits; r differs from sz
\* exactly where b moved a hint off the size.
HintsOnly(sz, r, b) ==
  /\ Len(r) = Len(sz)
  /\ \A i \in DOMAIN sz :
       /\ r[i].size = sz[i].size /\ r[i].minSize = sz[i].minSize
       /\ r[i].maxSize = sz[i].maxSize /\ r[i].stretch = sz[i].stretch
       /\ r[i].sizeHint = sz[i].sizeHint \/ r[i].sizeHint = b[i].sizeHint
       /\ b[i].sizeHint # sz[i].size => r[i].sizeHint = b[i].sizeHint
       /\ Le(sz[i].minSize, b[i].sizeHint) /\ Le(b[i].sizeHint, sz[i].maxSize)
       /\ r[i].sizeHint # sz[i].sizeHint =>
            Le(sz[i].minSize, r[i].sizeHint) /\ Le(r[i].sizeHint, sz[i].maxSize)

\* What the hints of b exceed the sizes by over the positions lo..hi.
Added(sz, b, lo, hi) ==
  SumSeq([j \in 1..(hi - lo + 1) |-> Sub(b[lo + j - 1].sizeHint, sz[lo + j - 1].size)])

\* C34: if every sizer has minSize <= size <= maxSize when growSizer or
\* shrinkSizer is called, every sizeHint the call writes lies within the
\* sizer's [minSize, maxSize], the hints of the growing side exceed the sizes
\* by the effective delta in total and those of the shrinking side fall short
\* of the sizes by it, and no size is written.
C34_HintsWithinAndBalanced ==
  (\A i \in DOMAIN sizers : Within(sizers[i])) =>
    \A index \in 0..(NS - 2), delta \in Deltas :
      \A sz \in {pinHints(sizers)} :
      \A g \in {growSizer(Blank(sz), index, Whole(delta))} :
      \A s \in {shrinkSizer(Blank(sz), index, Whole(delta))} :
      \A up \in {growDelta(sz, index, Whole(delta))} :
      \A down \in {shrinkDelta(sz, index, Whole(delta))} :
        /\ HintsOnly(sz, growSizer(sz, index, Whole(delta)), g)
        /\ HintsOnly(sz, shrinkSizer(sz, index, Whole(delta)), s)
        /\ Le(Zero, up) /\ Le(Zero, down)
        /\ Added(sz, g, 1, index + 1) = up
        /\ Added(sz, g, index + 2, NS) = Neg(up)
        /\ Added(sz, s, index + 2, NS) = down
        /\ Added(sz, s, 1, index + 1) = Neg(down)

\* Reachable: after a layout pass every size is within its limits, and at
\* some boundary a grow and a shrink each move the hints by a positive
\* effective delta, the shrink by less than was asked for.
C34_Witness ==
  /\ ~dirty
  /\ \A i \in DOMAIN sizers : Within(sizers[i])
  /\ \E index \in 0..(NS - 2), delta \in Deltas :
       LET sz == pinHints(sizers)
       IN  /\ Less(Zero, growDelta(sz, index, Whole(delta)))
           /\ Less(Zero, shrinkDelta(sz, index, Whole(delta)))
           /\ Less(shrinkDelta(sz, index, Whole(delta)), Whole(delta))
           /\ growSizer(sz, index, Whole(delta)) # sz
           /\ shrinkSizer(sz, index, Whole(delta)) # sz


\* ------------------------------------------- claims on the end of a drag
\* In P no drag is active, the override of the press recorded in the current
\* state (if any) is disposed and no document listener is left.
NoDragIn(P) ==
  /\ P.pressData = <<>>
  /\ P.docListeners \cap DocEvents = {}
  /\ Dragging => pressData[1].override \notin P.cursors

\* C35: whenever the split panel processes child-added, child-removed or
\* before-detach, or is disposed, an active drag is ended: the press data is
\* cleared, the cursor override of the press is disposed and the document
\* listeners are removed; after any of these no drag is active.
C35_DragEndedByChangeAndDispose ==
  /\ NoDragIn(onChildAdded(PN))
  /\ NoDragIn(onChildRemoved(PN))
  /\ NoDragIn(onBeforeDetach(PN))
  /\ NoDragIn(panelDispose(PN, PanelAttached))
  /\ \A c \in Children :
       IF IndexOf(pwidgets, c) = 0 - 1
         THEN \A index \in 0..NS : NoDragIn(panelInsertWidget(PN, index, c))
         ELSE NoDragIn(panelRemoveWidget(PN, c))

\* Reachable: a drag is active on an attached panel to which a child can
\* still be added; adding it, removing a child, detaching and disposing each
\* end the drag, and the disposal also takes the mousedown listener off the
\* panel's node.
C35_Witness ==
  /\ Dragging /\ PanelAttached /\ docListeners = DocEvents
  /\ pressData[1].override \in cursors
  /\ \E c \in Children :
       /\ IndexOf(pwidgets, c) = 0 - 1
       /\ panelInsertWidget(PN, 0, c).pressData = <<>>
       /\ Len(panelInsertWidget(PN, 0, c).widgets) = Len(pwidgets) + 1
  /\ panelRemoveWidget(PN, pwidgets[1]).pressData = <<>>
  /\ onBeforeDetach(PN).cursors = cursors \ {pressData[1].override}
  /\ LET P == panelDispose(PN, PanelAttached)
     IN  P.disposed /\ P.pressData = <<>> /\ P.nodeListeners = {} /\ P.docListeners = {}


\* ------------------------------------------- claims on the cursor overrides
\* In P one override is held while press data is recorded and none otherwise.
Balanced(P) == Cardinality(P.cursors) = (IF P.pressData # <<>> THEN 1 ELSE 0)

\* C36: across any sequence of mouse and key events, child changes, detach
\* and dispose, the number of cursor overrides the panel has acquired and not
\* disposed is 1 while a drag is active and 0 otherwise.  (Stated as the
\* claim states it; the code does not keep it.)
C36_OneOverridePerDrag == Balanced(PN)

\* The events the page can hand to the panel, but for the mouse presses.
PageEvents ==
  DragInputs
  \cup {DomEvent("mouseup", b, 0, Outside, 0) : b \in Buttons}
  \cup {DomEvent(type, 0, 0, Outside, 0) : type \in {"blur", "wheel"}}

\* The mouse presses in or outside an attached or detached panel.
Presses ==
  {DomEvent("mousedown", b, 0, target, 0) :
     b \in Buttons, target \in {Outside, NoHandle} \cup (0..(NS - 1))}

\* What the code keeps of C36: the override recorded in the press data is
\* held, and only a press that arrives during a drag unbalances the count:
\* from a state where it is 1 while dragging and 0 otherwise, every other
\* event, child change, detach and dispose leaves it so.
C36_LeakOnlyByPressWhileDragging ==
  /\ Dragging => pressData[1].override \in cursors
  /\ Balanced(PN) =>
       /\ \A e \in PageEvents : Balanced(dispatchEvent(PN, e))
       /\ ~Dragging => \A e \in Presses : Balanced(dispatchEvent(PN, e))
       /\ Balanced(onAfterAttach(PN)) /\ Balanced(onBeforeDetach(PN))
       /\ Balanced(panelDispose(PN, PanelAttached))
       /\ \A c \in Children :
            /\ \A index \in 0..NS : Balanced(panelInsertWidget(PN, index, c))
            /\ Balanced(panelRemoveWidget(PN, c))


\* ------------------------------------------- claims on the recorded index
\* While press data is recorded in P, its index is an index of a handle.
IndexValid(P) ==
  P.pressData # <<>> =>
    P.pressData[1].index >= 0 /\ P.pressData[1].index < Len(P.lay.handles)

\* C37: while a drag is active the recorded handle index is a valid index
\* into the handles, 0 <= index < number of handles, whatever insertions,
\* removals and reorderings of children are interleaved with the mouse
\* events.
C37_RecordedIndexValid ==
  /\ IndexValid(PN)
  /\ \A c \in Children :
       /\ \A index \in 0..NS : IndexValid(panelInsertWidget(PN, index, c))
       /\ IndexValid(panelRemoveWidget(PN, c))
  /\ \A e \in Presses \cup HandlePresses : IndexValid(dispatchEvent(PN, e))
  /\ \A x \in {0, MaxWidth} : IndexValid(dispatchEvent(PN, MoveEvent(x)))

\* Reachable: a drag on the last shown handle is active; moving the last
\* child to the front keeps the drag and its index, which is still an index
\* of a handle, and removing the last child ends the drag.
C37_Witness ==
  /\ Dragging /\ Len(pwidgets) = NS
  /\ pressData[1].index = NS - 2
  /\ LET P == panelInsertWidget(PN, 0, pwidgets[NS])
     IN  /\ P.widgets # pwidgets
         /\ P.pressData = pressData
         /\ P.pressData[1].index < Len(P.lay.handles)
  /\ LET P == panelRemoveWidget(PN, pwidgets[NS])
     IN  P.pressData = <<>> /\ Len(P.lay.handles) = NS - 1

=============================================================================
